---- MODULE Spec2Model ----
(***************************************************************************)
(* PagerAmp Bluetooth pairing wizard (ui/bluetooth.py, both source trees)  *)
(* driven by the host loop of pageramp.py.                                 *)
(*                                                                         *)
(* Text.  A Python str is modelled as a sequence over an alphabet of       *)
(* symbols; a symbol is a TLA+ string standing for a run of characters     *)
(* that no operation of the program cuts in two ("Device", " ", ":",       *)
(* "LE-", "[paired]", "\n", ...).  Concatenation is \o, and startswith,    *)
(* `in`, replace, split, strip and lower are computed on the sequence the  *)
(* way Python computes them on the characters.                             *)
(*                                                                         *)
(* External commands.  Every subprocess the program starts is appended to  *)
(* `calls`, the record of the commands issued by the handler that is       *)
(* running (or ran last); the text a command prints is chosen by the       *)
(* environment from a small set of outputs.                                *)
(***************************************************************************)
EXTENDS Integers, Sequences, FiniteSets, TLC

\* ------------------------------------------------------------------ text

SP == " "
NL == "\n"

IsWs(c) == c \in {SP, NL}

\* str.startswith(p)
StartsWith(s, p) == Len(s) >= Len(p) /\ SubSeq(s, 1, Len(p)) = p

\* sub in s
Contains(s, sub) == \E i \in 1..(Len(s) - Len(sub) + 1) : SubSeq(s, i, i + Len(sub) - 1) = sub

\* s[n:]
Drop(s, n) == SubSeq(s, n + 1, Len(s))

RECURSIVE Replace(_, _, _)
\* str.replace(old, new): leftmost non-overlapping occurrences (old is non-empty)
Replace(s, old, new) ==
    IF s = <<>> THEN <<>>
    ELSE IF StartsWith(s, old) THEN new \o Replace(Drop(s, Len(old)), old, new)
    ELSE <<Head(s)>> \o Replace(Tail(s), old, new)

RECURSIVE LStrip(_)
LStrip(s) == IF s # <<>> /\ IsWs(Head(s)) THEN LStrip(Tail(s)) ELSE s

RECURSIVE RStrip(_)
RStrip(s) == IF s # <<>> /\ IsWs(s[Len(s)]) THEN RStrip(SubSeq(s, 1, Len(s) - 1)) ELSE s

\* str.strip()
Strip(s) == RStrip(LStrip(s))

RECURSIVE SplitOn(_, _)
\* str.split(sep) for a one-symbol separator: "".split("\n") is [""]
SplitOn(s, sep) ==
    IF \A i \in 1..Len(s) : s[i] # sep THEN <<s>>
    ELSE LET i == CHOOSE k \in 1..Len(s) : s[k] = sep /\ \A j \in 1..(k - 1) : s[j] # sep
         IN  <<SubSeq(s, 1, i - 1)>> \o SplitOn(Drop(s, i), sep)

\* the length of the leading run of non-whitespace symbols
WordEnd(s) == IF \A i \in 1..Len(s) : ~IsWs(s[i]) THEN Len(s)
              ELSE (CHOOSE k \in 1..Len(s) : IsWs(s[k]) /\ \A j \in 1..(k - 1) : ~IsWs(s[j])) - 1

RECURSIVE SplitWs(_, _)
\* str.split(None, maxsplit); maxsplit = -1 splits everywhere.  Runs of
\* whitespace separate the parts; after maxsplit splits the rest of the
\* string (its leading whitespace removed) is the last part.
SplitWs(s, maxsplit) ==
    LET t == LStrip(s)
    IN  IF t = <<>> THEN <<>>
        ELSE IF maxsplit = 0 THEN <<t>>
        ELSE <<SubSeq(t, 1, WordEnd(t))>> \o SplitWs(Drop(t, WordEnd(t)), IF maxsplit < 0 THEN maxsplit ELSE maxsplit - 1)

\* str.lower() on one symbol; symbols without upper-case letters map to themselves
LowerSym(c) ==
    CASE c = "Auth" -> "auth"
      [] c = "Failed" -> "failed"
      [] c = "FAILED" -> "failed"
      [] c = ".MP3" -> ".mp3"
      [] OTHER -> c

\* str.lower()
Lower(s) == [i \in 1..Len(s) |-> LowerSym(s[i])]

\* list.index(x) when x in list
IndexOf(parts, x) == CHOOSE i \in 1..Len(parts) : parts[i] = x /\ \A j \in 1..(i - 1) : parts[j] # x

\* ------------------------------------------------------------ constants

\* BluetoothScreen states
CHECK_ADAPTER == 0
SCAN == 1
SELECT_DEVICE == 2
PAIR == 3
CONNECT == 4
TEST == 5
DONE == 6
ERROR == 7

STATE_LABELS == <<"Checking adapter...", "Scanning...", "Select device", "Pairing...", "Connecting...", "Testing audio...", "Connected!", "Error">>

\* buttons and the press event type of handle_input
BTN_UP == 1
BTN_DOWN == 2
BTN_A == 16
BTN_B == 32
PRESS == 1
RELEASE == 0

Buttons == {BTN_UP, BTN_DOWN, BTN_A, BTN_B}
EventTypes == {PRESS, RELEASE}

SCREEN_H == 222
line_height == 18
visible_count == (SCREEN_H - 60) \div line_height
scan_duration == 12

\* Python's None
None == "None"
\* self.adapter_mac = None, self._pair_pending = None: the empty values of the
\* fields that hold an address and a (mac, name) pair
NoAddress == <<>>
NoRequest == <<>>

\* the two source trees: src/root/payloads/.../ui/bluetooth.py and src/ui/bluetooth.py
Trees == {"payload", "app"}

\* host screens from which the wizard is opened (start menu, settings, menu overlay of now_playing)
OtherScreens == {"start", "settings", "now_playing"}

\* seconds that pass in one frame of the host loop, at most
Tick == 6

\* ------------------------------------------------------------------ state

VARIABLES
    world,           \* which part of the environment varies in this behaviour
    tree,            \* which source tree runs
    fs,              \* files of the installation: [asound, bluealsad] -> BOOLEAN
    current_screen,  \* PagerAmp.current_screen
    phase,           \* position of PagerAmp.run in its loop: "input", "update", "draw"
    state, hci, hci_index, adapter_mac, devices, selected, scroll_offset,
    message, error_msg, _pair_pending, _pair_draw_wait, return_screen,
    since_scan,      \* time.time() - _scan_start in seconds, saturating at scan_duration
    settings,        \* the host's settings dict: bt_device_mac, bt_device_name
    pc,              \* position of _pair_device while update() runs it, else "idle"
    eng,             \* locals of the running (or last) _pair_device call
    calls,           \* external commands issued by the handler running (or run last)
    display,         \* what the last draw() painted: header label, text, list rows
    seen,            \* the local `seen` of the last _poll_scan aggregation
    op,              \* the BluetoothScreen method the host called last
    event,           \* the (button, event_type) the host dispatched last from this frame's queue
    ret,             \* what the last handle_input returned
    tracks, order, position, shuffle, repeat,   \* the fields of PagerAmp.playlist
    raised           \* the last Playlist method raised IndexError

\* no event: the host found its queue empty
NoEvent == <<>>

wizard == <<state, hci, hci_index, adapter_mac, devices, selected, scroll_offset, message, error_msg, _pair_pending, _pair_draw_wait, return_screen>>
playlist == <<tracks, order, position, shuffle, repeat, raised>>
app == <<world, tree, fs, current_screen, phase, wizard, since_scan, settings, pc, eng, calls, display, seen, op, event, ret>>
vars == <<app, playlist>>

\* --------------------------------------------------------- the environment

\* device addresses and names the environment can report
MAC1 == <<"11", ":", "22">>
MAC2 == <<"AA", ":", "BB">>
MAC3 == <<"C0", ":", "DE">>
ADAPTER_MAC == <<"00", ":", "1A">>

TAG_PAIRED == <<SP, "[paired]">>
TAG_SAVED == <<SP, "[saved]">>

\* an external command: the tool, its verb and its argument
Cmd(tool, verb, arg) == <<tool, verb, arg>>

\* an external command logged with the text it printed
Query(tool, verb, arg, stdout) == <<tool, verb, arg, stdout>>

YesNo(b) == IF b THEN "yes" ELSE "no"

\* `bluetoothctl info <mac>`: the two fields the program reads, or nothing
\* (unknown device, daemon down, timeout)
InfoText(p, c) == <<"Paired:", SP, YesNo(p), NL, "Connected:", SP, YesNo(c)>>
InfoOutputs ==
    IF world \in {"truth", "fair"} THEN {InfoText(FALSE, FALSE), InfoText(TRUE, FALSE), InfoText(TRUE, TRUE)}
    ELSE IF world = "engine" THEN {InfoText(p, c) : p \in BOOLEAN, c \in BOOLEAN} \cup {<<>>}
    ELSE IF world = "list" THEN {InfoText(TRUE, FALSE)}
    ELSE {InfoText(TRUE, FALSE), InfoText(FALSE, TRUE)}

\* `bluetoothctl connect <mac> 2>&1`
AllConnectOutputs ==
    { <<"Connection", SP, "successful">>,
      <<"Failed", SP, "to", SP, "connect:", SP, "org.bluez.Error.Failed">>,
      <<"Failed", SP, "to", SP, "connect:", SP, "br-connection-", "key-missing">>,
      <<"Failed", SP, "to", SP, "connect:", SP, "org.bluez.Error.", "AuthenticationFailed">>,
      <<"Auth", SP, "Failed">>,
      <<"status", SP, "0x05">>,
      <<"status", SP, "0x06">>,
      <<>> }
\* a success text, an error text, an authentication error text
SomeConnectOutputs ==
    { <<"Connection", SP, "successful">>,
      <<"Failed", SP, "to", SP, "connect:", SP, "org.bluez.Error.Failed">>,
      <<"Failed", SP, "to", SP, "connect:", SP, "br-connection-", "key-missing">> }
ConnectOutputs ==
    IF world = "engine" THEN AllConnectOutputs
    ELSE IF world \in {"truth", "fair"} THEN SomeConnectOutputs
    ELSE {<<>>}

\* `bluetoothctl pair <mac> 2>&1` (payload tree)
PairOutputs ==
    { <<"Pairing", SP, "successful">>,
      <<"Failed", SP, "to", SP, "pair:", SP, "Already", SP, "Paired">>,
      <<"Failed", SP, "to", SP, "pair:", SP, "org.bluez.Error.", "AuthenticationFailed">>,
      <<>> }

\* `btmgmt --index N pair ...` (app tree)
BtmgmtOutputs ==
    { <<"Paired", SP, "with", SP, "status", SP, "0x00">>,
      <<"Already", SP, "Paired">>,
      <<"Pair", SP, "FAILED", SP, "status", SP, "0x05">>,
      <<"Pairing", SP, "with", SP, "device">>,
      <<>> }

\* `ps w | grep bluealsad | grep -v grep`: the relay is not running, or runs
\* pinned to one of the controllers
PsText(h) == <<"bluealsad", SP, "-i", SP, h, SP, "-p", SP, "a2dp-source">>
PsOutputs == IF world = "services" THEN {<<>>, PsText("hci0"), PsText("hci1")} ELSE {PsText("hci0")}

\* --------------------------------------------- Bluetooth connection helpers

\* _run: stdout of the command, stripped
_run(stdout) == Strip(stdout)

\* _update_asound: rewrites the routing file when it exists
_update_asound(mac) == IF fs.asound THEN <<Cmd("sed", "asound.conf", mac)>> ELSE <<>>

\* a relay launched on the selected controller beside the one that runs
_ensure_bluealsad_NoKill(h, ps_out) ==
    LET ps == _run(ps_out)
    IN  IF ~fs.bluealsad THEN <<>>
        ELSE <<Query("ps", "bluealsad", <<>>, ps_out)>> \o
             (IF ps # <<>> /\ Contains(ps, <<"-i", SP, h>>) THEN <<>>
              ELSE <<Cmd("bluealsad", "-i", <<h>>)>>)

\* _ensure_bluealsad with self.hci = h: the commands it issues, given what ps prints
_ensure_bluealsad(h, ps_out) ==
    LET ps == _run(ps_out)
    IN  IF ~fs.bluealsad THEN <<>>
        ELSE <<Query("ps", "bluealsad", <<>>, ps_out)>> \o
             (IF ps # <<>> /\ Contains(ps, <<"-i", SP, h>>) THEN <<>>
              ELSE (IF ps # <<>> THEN <<Cmd("killall", "bluealsad", <<>>)>> ELSE <<>>)
                   \o <<Cmd("bluealsad", "-i", <<h>>)>>)

\* what the tools printed to one helper call, kept in the "truth" world only:
\* the verb, the text the command printed, whether the info query was made
\* and the text it printed
Heard(verb, out, asked, info) ==
    IF world = "truth" THEN <<[verb |-> verb, out |-> out, asked |-> asked, info |-> IF asked THEN info ELSE <<>>]>> ELSE <<>>

\* a _do_pair that counts every output without a success text as a failure
DoPairPayload_NeverAsk(mac, pair_out, info_out) ==
    LET result == _run(pair_out)
        pair_call == <<Cmd("bluetoothctl", "pair", mac)>>
    IN  [ok |-> Contains(result, <<"Pairing", SP, "successful">>) \/ Contains(result, <<"Already", SP, "Paired">>),
         calls |-> pair_call,
         io |-> Heard("pair", pair_out, FALSE, <<>>)]

\* _do_pair, payload tree: bluetoothctl pair, with the daemon's state as fallback
DoPairPayload(mac, pair_out, info_out) ==
    LET result == _run(pair_out)
        info == _run(info_out)
        pair_call == <<Cmd("bluetoothctl", "pair", mac)>>
    IN  IF Contains(result, <<"Pairing", SP, "successful">>) THEN [ok |-> TRUE, calls |-> pair_call, io |-> Heard("pair", pair_out, FALSE, <<>>)]
        ELSE IF Contains(result, <<"Already", SP, "Paired">>) THEN [ok |-> TRUE, calls |-> pair_call, io |-> Heard("pair", pair_out, FALSE, <<>>)]
        ELSE [ok |-> Contains(info, <<"Paired:", SP, "yes">>),
              calls |-> pair_call \o <<Cmd("bluetoothctl", "info", mac)>>,
              io |-> Heard("pair", pair_out, TRUE, info_out)]

\* _do_pair, app tree: btmgmt pair
DoPairApp(mac, pair_out, info_out) ==
    LET result == _run(pair_out)
        info == _run(info_out)
        pair_call == <<Cmd("btmgmt", "pair", mac)>>
    IN  IF Contains(result, <<"status", SP, "0x00">>) THEN [ok |-> TRUE, calls |-> pair_call, io |-> Heard("pair", pair_out, FALSE, <<>>)]
        ELSE IF Contains(result, <<"Already", SP, "Paired">>) THEN [ok |-> TRUE, calls |-> pair_call, io |-> Heard("pair", pair_out, FALSE, <<>>)]
        ELSE IF Contains(Lower(result), <<"failed">>) THEN [ok |-> FALSE, calls |-> pair_call, io |-> Heard("pair", pair_out, FALSE, <<>>)]
        ELSE [ok |-> Contains(info, <<"Paired:", SP, "yes">>),
              calls |-> pair_call \o <<Cmd("bluetoothctl", "info", mac)>>,
              io |-> Heard("pair", pair_out, TRUE, info_out)]

_do_pair(mac, pair_out, info_out) ==
    IF tree = "payload" THEN DoPairPayload(mac, pair_out, info_out) ELSE DoPairApp(mac, pair_out, info_out)

\* what the pairing tool of the running tree can print
DoPairOutputs == IF world \notin {"engine", "truth", "fair"} THEN {<<>>} ELSE IF tree = "payload" THEN PairOutputs ELSE BtmgmtOutputs

\* the authentication-failure classification of _try_connect
AuthFail(result) ==
    \/ Contains(result, <<"key-missing">>)
    \/ Contains(result, <<"AuthenticationFailed">>)
    \/ Contains(Lower(result), <<"auth", SP, "failed">>)
    \/ Contains(result, <<"status", SP, "0x05">>)
    \/ Contains(result, <<"status", SP, "0x06">>)

\* a _try_connect that believes the connect command's success text
_try_connect_TrustOutput(mac, connect_out, info_out) ==
    LET result == _run(connect_out)
        info == _run(info_out)
    IN  [connected |-> Contains(info, <<"Connected:", SP, "yes">>) \/ Contains(result, <<"Connection", SP, "successful">>),
         auth_fail |-> AuthFail(result),
         calls |-> <<Cmd("bluetoothctl", "connect", mac), Cmd("bluetoothctl", "info", mac)>>,
         io |-> Heard("connect", connect_out, TRUE, info_out)]

\* _try_connect: (connected, auth_fail) and the commands issued
_try_connect(mac, connect_out, info_out) ==
    LET result == _run(connect_out)
        info == _run(info_out)
    IN  [connected |-> Contains(info, <<"Connected:", SP, "yes">>),
         auth_fail |-> AuthFail(result),
         calls |-> <<Cmd("bluetoothctl", "connect", mac), Cmd("bluetoothctl", "info", mac)>>,
         io |-> Heard("connect", connect_out, TRUE, info_out)]

\* every result _do_pair can return, over what the tools may print
DoPairResults(mac) == {_do_pair(mac, pair_out, info_out) : pair_out \in DoPairOutputs, info_out \in InfoOutputs}

\* every result _try_connect can return, over what the tools may print
TryConnectResults(mac) == {_try_connect(mac, connect_out, info_out) : connect_out \in ConnectOutputs, info_out \in InfoOutputs}

\* _remove_device without the remove
_remove_device_NoRemove(mac) == <<Cmd("bluetoothctl", "disconnect", mac)>>

\* _remove_device: disconnect, then remove
_remove_device(mac) == <<Cmd("bluetoothctl", "disconnect", mac), Cmd("bluetoothctl", "remove", mac)>>

\* ------------------------------------------------------- adapter selection

\* `hciconfig -a <hci>`
HciText(bus, mac) == <<"Type:", SP, "Primary", SP, "Bus:", SP, bus, NL, "BD", SP, "Address", ":", SP>> \o mac \o <<SP, "ACL", SP, "MTU:", SP, "310">>
UsbInfo == HciText("USB", ADAPTER_MAC)
UartInfo == HciText("UART", MAC2)
MediaTekInfo == UsbInfo \o <<NL, "Manufacturer:", SP, "MediaTek">>
UsbNoAddressInfo == <<"Type:", SP, "Primary", SP, "Bus:", SP, "USB">>
\* an info text whose address line lacks the "BD" word
UsbOddInfo == <<"Type:", SP, "Primary", SP, "Bus:", SP, "USB", NL, "Address", ":", SP>> \o ADAPTER_MAC

\* what `hciconfig -a` may print in this model
HciOutputs == IF world = "adapter" THEN {<<>>, UsbInfo, UsbNoAddressInfo, UsbOddInfo, MediaTekInfo, UartInfo} ELSE {UsbInfo}

\* filters that leave out the bus test, or the chipset test
Acceptable_NoBusTest(info) == ~Contains(info, <<"MediaTek">>) /\ info # <<>>
Acceptable_NoChipTest(info) == Contains(info, <<"Bus:", SP, "USB">>) /\ info # <<>>

\* the controller passes the filters of the for loop
Acceptable(info) == Contains(info, <<"Bus:", SP, "USB">>) /\ ~Contains(info, <<"MediaTek">>) /\ info # <<>>

RECURSIVE BdAddressLine(_)
\* the first line of the info that contains "BD Address", or None
BdAddressLine(lines) ==
    IF lines = <<>> THEN None
    ELSE IF Contains(Head(lines), <<"BD", SP, "Address">>) THEN Head(lines)
    ELSE BdAddressLine(Tail(lines))

\* an extraction that looks for the token in the whole text
ExtractAddress_AnyLine(info, old) ==
    LET parts == SplitWs(info, -1)
        idx == IF \E i \in 1..Len(parts) : parts[i] = <<"Address", ":">> THEN IndexOf(parts, <<"Address", ":">>) ELSE 0
    IN  IF idx >= 1 /\ idx + 1 <= Len(parts) THEN parts[idx + 1] ELSE old

\* the address the inner loop stores in adapter_mac; `old` when it stores none
ExtractAddress(info, old) ==
    LET line == BdAddressLine(SplitOn(info, NL))
    IN  IF line = None THEN old
        ELSE LET parts == SplitWs(line, -1)
                 idx == IF \E i \in 1..Len(parts) : parts[i] = <<"Address", ":">> THEN IndexOf(parts, <<"Address", ":">>) ELSE 0
             IN  IF idx >= 1 /\ idx + 1 <= Len(parts) THEN parts[idx + 1] ELSE old

\* hci.replace("hci", "")
HciIndex(h) == IF h = "hci0" THEN "0" ELSE "1"

\* _ensure_dbus: commands issued, given `pidof dbus-daemon`
_ensure_dbus(pidof_out) ==
    LET policy_installed == ~fs.dbus_conf /\ fs.policy_src
        install == IF policy_installed THEN <<Cmd("mkdir", "-p", <<"system.d">>), Cmd("cp", "bluealsa-dbus.conf", <<"bluealsa.conf">>)>> ELSE <<>>
        pidof == <<Query("pidof", "dbus-daemon", <<>>, pidof_out)>>
    IN  install \o pidof \o
        (IF _run(pidof_out) = <<>> THEN <<Cmd("dbus-daemon", "--system", <<>>)>>
         ELSE IF policy_installed
              THEN (IF fs.initd_dbus THEN <<Cmd("/etc/init.d/dbus", "restart", <<>>)>>
                    ELSE <<Cmd("killall", "dbus-daemon", <<>>)>>)
         ELSE <<>>)

\* the policy file exists after _ensure_dbus copied it
FsAfterDbus == IF ~fs.dbus_conf /\ fs.policy_src THEN [fs EXCEPT !.dbus_conf = TRUE] ELSE fs

\* a bootstrap step that starts the daemon whatever pidof prints
_ensure_bluetoothd_Always(pidof_out) ==
    <<Query("pidof", "bluetoothd", <<>>, pidof_out), Cmd("bluetoothd", "-n", <<>>)>>

\* _ensure_bluetoothd, and the same check at the head of the app tree's _start_scan
_ensure_bluetoothd(pidof_out) ==
    <<Query("pidof", "bluetoothd", <<>>, pidof_out)>> \o (IF _run(pidof_out) = <<>> THEN <<Cmd("bluetoothd", "-n", <<>>)>> ELSE <<>>)

\* `pidof <daemon>`: a pid, or nothing
PidofOutputs == IF world = "services" THEN {<<>>, <<"1234">>} ELSE {<<"1234">>}

\* _start_scan: the commands it issues
StartScanCalls(h, btd_out) ==
    IF tree = "payload" THEN <<Cmd("bluetoothctl", "scan", <<"on">>)>>
    ELSE _ensure_bluetoothd(btd_out) \o <<Cmd("hcitool", "scan", <<h>>)>>

MSG_SCANNING == <<"Scanning...", SP, "Put", SP, "device", SP, "in", SP, "pairing", SP, "mode!">>
MSG_NO_DONGLE == <<"No", SP, "USB", SP, "BT", SP, "dongle", SP, "found.", NL, "Plug", SP, "in", SP, "a", SP, "dongle", SP, "and", SP, "try", SP, "again.">>
MSG_LOOKING == <<"Looking", SP, "for", SP, "USB", SP, "BT", SP, "dongle...">>

\* commands of _check_adapter for the selected controller h, up to the scan
BringUpCalls(h, mac, dbus_out, btd_out, ps_out) ==
    <<Cmd("hciconfig", "up", <<h>>), Cmd("hciconfig", "auth encrypt", <<h>>), Cmd("hciconfig", "name", <<h>>)>>
    \o (IF tree = "payload" THEN _ensure_dbus(dbus_out) \o _ensure_bluetoothd(btd_out) ELSE <<>>)
    \o (IF mac # NoAddress THEN <<Cmd("bluetoothctl", "select", mac)>> ELSE <<>>)
    \o <<Cmd("bluetoothctl", "power", <<"on">>), Cmd("bluetoothctl", "pairable", <<"on">>)>>
    \o (IF tree = "payload" THEN <<Cmd("bluetoothctl", "system-alias", <<>>)>> \o _ensure_bluealsad(h, ps_out) ELSE <<>>)

\* what the services' liveness checks may print; a check the running tree
\* does not make has one (unused) output
DbusOutputs == IF tree = "payload" THEN PidofOutputs ELSE {<<>>}
BtdOutputs == IF tree = "payload" THEN PidofOutputs ELSE {<<>>}
RelayOutputs == IF fs.bluealsad THEN PsOutputs ELSE {<<>>}
ScanBtdOutputs == IF tree = "app" THEN PidofOutputs ELSE {<<>>}

\* _check_adapter found controller h (its info given): bring-up, services, scan
AdapterFound(h, info, queries, err0) ==
    LET mac == ExtractAddress(info, adapter_mac)
    IN  /\ hci' = h
        /\ hci_index' = HciIndex(h)
        /\ adapter_mac' = mac
        /\ fs' = IF tree = "payload" THEN FsAfterDbus ELSE fs
        /\ \E dbus_out \in DbusOutputs, btd_out \in BtdOutputs, ps_out \in RelayOutputs, btd2_out \in ScanBtdOutputs :
             calls' = queries \o BringUpCalls(h, mac, dbus_out, btd_out, ps_out) \o StartScanCalls(h, btd2_out)
        /\ state' = SCAN
        /\ message' = MSG_SCANNING
        /\ devices' = <<>>
        /\ since_scan' = 0
        /\ error_msg' = err0

\* an entry that does not empty the device list
AdapterNotFound_KeepDevices(queries, devs0) ==
    /\ state' = ERROR
    /\ error_msg' = MSG_NO_DONGLE
    /\ message' = MSG_LOOKING
    /\ devices' = devices
    /\ calls' = queries
    /\ UNCHANGED <<hci, hci_index, adapter_mac, fs, since_scan>>

\* _check_adapter found no acceptable controller
AdapterNotFound(queries, devs0) ==
    /\ state' = ERROR
    /\ error_msg' = MSG_NO_DONGLE
    /\ message' = MSG_LOOKING
    /\ devices' = devs0
    /\ calls' = queries
    /\ UNCHANGED <<hci, hci_index, adapter_mac, fs, since_scan>>

\* the for loop of _check_adapter when `hciconfig -a` prints info0 for hci0
\* and info1 for hci1 (hci1 is queried only when hci0 is passed over)
CheckAdapterWith(info0, info1, devs0, err0) ==
    LET q0 == <<Query("hciconfig", "-a", <<"hci0">>, info0)>>
        q1 == <<Query("hciconfig", "-a", <<"hci1">>, info1)>>
    IN  IF Acceptable(_run(info0)) THEN AdapterFound("hci0", _run(info0), q0, err0)
        ELSE IF Acceptable(_run(info1)) THEN AdapterFound("hci1", _run(info1), q0 \o q1, err0)
        ELSE AdapterNotFound(q0 \o q1, devs0)

\* _check_adapter, entered with device list devs0 and error text err0: the
\* first acceptable controller of hci0, hci1
_check_adapter(devs0, err0) ==
    \E info0 \in HciOutputs :
      IF Acceptable(_run(info0)) THEN CheckAdapterWith(info0, info0, devs0, err0)
      ELSE \E info1 \in HciOutputs : CheckAdapterWith(info0, info1, devs0, err0)

\* ------------------------------------------------------------ device scan

RECURSIVE PairedLoop(_, _)
\* loop 1 of _poll_scan over the lines of `bluetoothctl devices Paired`;
\* acc = [devices, seen]
PairedLoop(lines, acc) ==
    IF lines = <<>> THEN acc
    ELSE LET line == Head(lines)
             parts == SplitWs(line, 2)
             take == StartsWith(line, <<"Device", SP>>) /\ Len(parts) >= 3 /\ parts[2] \notin acc.seen
         IN  PairedLoop(Tail(lines),
                        IF take THEN [devices |-> Append(acc.devices, <<parts[2], parts[3] \o TAG_PAIRED>>),
                                      seen |-> acc.seen \cup {parts[2]}]
                        ELSE acc)

\* a name that keeps its "LE-"
StripLE_Keep(name) == name

\* name[3:] when the name starts with "LE-"
StripLE(name) == IF StartsWith(name, <<"LE-">>) THEN Drop(name, 1) ELSE name

RECURSIVE DiscoveredLoop(_, _)
\* loop 2 of the payload tree's _poll_scan over the lines of `bluetoothctl devices`
DiscoveredLoop(lines, acc) ==
    IF lines = <<>> THEN acc
    ELSE LET line == Head(lines)
             parts == SplitWs(line, 2)
             ok == StartsWith(line, <<"Device", SP>>) /\ Len(parts) >= 3
             mac == parts[2]
             name == StripLE(parts[3])
             take == ok /\ mac \notin acc.seen /\ name # <<>> /\ ~Contains(name, <<":">>)
         IN  DiscoveredLoop(Tail(lines),
                            IF take THEN [devices |-> Append(acc.devices, <<mac, name>>),
                                          seen |-> acc.seen \cup {mac}]
                            ELSE acc)

RECURSIVE HcitoolLoop(_, _)
\* loop 2 of the app tree's _poll_scan over the lines of the hcitool scan file
HcitoolLoop(lines, acc) ==
    IF lines = <<>> THEN acc
    ELSE LET line == Strip(Head(lines))
             parts == SplitWs(line, 1)
             ok == line # <<>> /\ ~Contains(line, <<"Scanning">>) /\ Len(parts) >= 1 /\ Contains(parts[1], <<":">>)
             mac == parts[1]
             name == IF Len(parts) > 1 THEN parts[2] ELSE <<"Unknown">>
             take == ok /\ mac \notin acc.seen
         IN  HcitoolLoop(Tail(lines),
                         IF take THEN [devices |-> Append(acc.devices, <<mac, name>>),
                                       seen |-> acc.seen \cup {mac}]
                         ELSE acc)

\* the saved device inserted whether seen or not
SavedFallback_Always(acc, st) ==
    IF st.bt_device_mac # <<>>
    THEN [devices |-> <<<<st.bt_device_mac, st.bt_device_name \o TAG_SAVED>>>> \o acc.devices, seen |-> acc.seen]
    ELSE acc

\* the saved device appended instead of inserted at the front
SavedFallback_Append(acc, st) ==
    IF st.bt_device_mac # <<>> /\ st.bt_device_mac \notin acc.seen
    THEN [devices |-> Append(acc.devices, <<st.bt_device_mac, st.bt_device_name \o TAG_SAVED>>), seen |-> acc.seen]
    ELSE acc

\* the saved device as fallback: inserted at the front when not seen
SavedFallback(acc, st) ==
    IF st.bt_device_mac # <<>> /\ st.bt_device_mac \notin acc.seen
    THEN [devices |-> <<<<st.bt_device_mac, st.bt_device_name \o TAG_SAVED>>>> \o acc.devices, seen |-> acc.seen]
    ELSE acc

\* the aggregation of _poll_scan: paired, then discovered, then the saved device
Aggregate(paired_out, found_out, st) ==
    LET a1 == PairedLoop(SplitOn(_run(paired_out), NL), [devices |-> <<>>, seen |-> {}])
        a2 == IF tree = "payload" THEN DiscoveredLoop(SplitOn(_run(found_out), NL), a1)
              ELSE HcitoolLoop(SplitOn(found_out, NL), a1)
    IN  SavedFallback(a2, st)

\* the commands of the aggregation (the app tree reads the scan file instead)
PollScanCalls ==
    <<Cmd("bluetoothctl", "devices", <<"Paired">>)>> \o (IF tree = "payload" THEN <<Cmd("bluetoothctl", "devices", <<>>)>> ELSE <<>>)

\* the two queries as the log keeps them, with the text each printed
PollScanLog(paired_out, found_out) ==
    <<Query("bluetoothctl", "devices", <<"Paired">>, paired_out)>>
    \o (IF tree = "payload" THEN <<Query("bluetoothctl", "devices", <<>>, found_out)>> ELSE <<>>)

MsgRemaining(elapsed) == <<"Scanning...", SP, ToString(scan_duration - elapsed), "s", SP, "remaining">>
MsgFound(n) == <<"Found", SP, ToString(n), SP, "device(s)">>
MSG_NONE_FOUND == <<"No", SP, "devices", SP, "found.", SP, "Scan", SP, "again?">>

\* a window that closes one frame early
WindowOpen_Early(elapsed) == elapsed + Tick < scan_duration

\* `if elapsed < self._scan_duration`
WindowOpen(elapsed) == elapsed < scan_duration

\* an aggregation that shows the list whatever its length
_poll_scan_AlwaysSelect(paired_out, found_out) ==
    IF WindowOpen(since_scan)
    THEN /\ message' = MsgRemaining(since_scan)
         /\ calls' = <<>>
         /\ UNCHANGED <<state, devices, selected, seen>>
    ELSE LET acc == Aggregate(paired_out, found_out, settings)
         IN  /\ devices' = acc.devices
             /\ seen' = acc.seen
             /\ calls' = PollScanLog(paired_out, found_out)
             /\ state' = SELECT_DEVICE /\ message' = MsgFound(Len(acc.devices)) /\ selected' = 0

\* _poll_scan
_poll_scan(paired_out, found_out) ==
    IF WindowOpen(since_scan)
    THEN /\ message' = MsgRemaining(since_scan)
         /\ calls' = <<>>
         /\ UNCHANGED <<state, devices, selected, seen>>
    ELSE LET acc == Aggregate(paired_out, found_out, settings)
         IN  /\ devices' = acc.devices
             /\ seen' = acc.seen
             /\ calls' = PollScanLog(paired_out, found_out)
             /\ IF acc.devices # <<>>
                THEN state' = SELECT_DEVICE /\ message' = MsgFound(Len(acc.devices)) /\ selected' = 0
                ELSE message' = MSG_NONE_FOUND /\ UNCHANGED <<state, selected>>

\* --------------------------------------------------------- the engine

\* the locals of _pair_device: its arguments, already_paired and
\* already_connected, the fast path's outcome ("none" while not tried), the
\* loop counters, paired, and auth_fail of the last connect attempt
NoEng == [mac |-> <<>>, name |-> <<>>, already_paired |-> FALSE, already_connected |-> FALSE, fast |-> "none",
          pair_attempt |-> 0, paired |-> FALSE, attempt |-> 0, auth_fail |-> FALSE, io |-> <<>>]

MsgPairing(name) == <<"Pairing", SP, "with", SP>> \o name \o <<"...">>
MsgConnecting(name) == <<"Connecting", SP, "to", SP>> \o name \o <<"...">>
MsgConnected(name) == <<"Connected", SP, "to", SP>> \o name \o <<"!">>
TRY_AGAIN == <<NL, "Put", SP, "device", SP, "in", SP, "pairing", NL, "mode", SP, "and", SP, "try", SP, "again.">>
MSG_PAIRING_FAILED == <<"Pairing", SP, "failed.">> \o TRY_AGAIN
MSG_CONNECTION_FAILED == <<"Connection", SP, "failed.">> \o TRY_AGAIN

\* a single attempt in the app tree
PairAttempts_One == IF tree = "payload" THEN 3 ELSE 1

\* one attempt fewer in the payload tree
PairAttempts_Short == IF tree = "payload" THEN 2 ELSE 2

\* range(3) in the payload tree, range(2) in the app tree
PairAttempts == IF tree = "payload" THEN 3 ELSE 2
\* one attempt more
ConnectAttempts_Long == 3 + 1

\* one attempt fewer
ConnectAttempts_Short == 3 - 1

\* range(3) of the post-pair connect loop
ConnectAttempts == 3

\* the settings after _finish_connect
FinishSettings(mac, name) == [settings EXCEPT !.bt_device_mac = mac, !.bt_device_name = name]

\* _finish_connect, and the return of _pair_device to update() and the host loop
_finish_connect(mac, name) ==
    /\ state' = DONE
    /\ message' = MsgConnected(name)
    /\ settings' = FinishSettings(mac, name)
    /\ pc' = "idle"
    /\ phase' = "draw"
    /\ UNCHANGED error_msg

\* giving up also forgets the saved device
EngineError_Forget(msg) ==
    /\ state' = ERROR
    /\ error_msg' = msg
    /\ pc' = "idle"
    /\ phase' = "draw"
    /\ settings' = [bt_device_mac |-> <<>>, bt_device_name |-> <<>>]
    /\ UNCHANGED message

\* giving up without the change of state
EngineError_Stay(msg) ==
    /\ error_msg' = msg
    /\ pc' = "idle"
    /\ phase' = "draw"
    /\ UNCHANGED <<state, message, settings>>

\* _pair_device gives up: state ERROR with the message, and returns
EngineError(msg) ==
    /\ state' = ERROR
    /\ error_msg' = msg
    /\ pc' = "idle"
    /\ phase' = "draw"
    /\ UNCHANGED <<message, settings>>

\* the branch with the two tests in the other order
StartBranch_PairedFirst(already_paired, already_connected) ==
    IF already_paired THEN "fast" ELSE IF already_connected THEN "done" ELSE "fresh"

\* the branch _pair_device takes on the device's state
StartBranch(already_paired, already_connected) ==
    IF already_connected THEN "done" ELSE IF already_paired THEN "fast" ELSE "fresh"

\* a head that asks for the device's state before it prepares the audio path
HeadCalls_InfoFirst(mac, ps_out) ==
    (IF adapter_mac # NoAddress THEN <<Cmd("bluetoothctl", "select", adapter_mac)>> ELSE <<>>)
    \o <<Cmd("bluetoothctl", "info", mac)>>
    \o _update_asound(mac) \o _ensure_bluealsad(hci, ps_out)

\* the commands of the head of _pair_device: adapter select, audio path, info query
HeadCalls(mac, ps_out) ==
    (IF adapter_mac # NoAddress THEN <<Cmd("bluetoothctl", "select", adapter_mac)>> ELSE <<>>)
    \o _update_asound(mac) \o _ensure_bluealsad(hci, ps_out)
    \o <<Cmd("bluetoothctl", "info", mac)>>

\* the head of _pair_device: adapter select, audio path, the info query, and
\* the branch on the device's state
PairDeviceStart(mac, name, ps_out, info_out) ==
    LET info == _run(info_out)
        already_paired == Contains(info, <<"Paired:", SP, "yes">>)
        already_connected == Contains(info, <<"Connected:", SP, "yes">>)
        branch == StartBranch(already_paired, already_connected)
    IN  /\ calls' = HeadCalls(mac, ps_out)
        /\ eng' = [NoEng EXCEPT !.mac = mac, !.name = name, !.already_paired = already_paired, !.already_connected = already_connected]
        /\ IF branch = "done" THEN _finish_connect(mac, name)
           ELSE IF branch = "fast"
           THEN /\ state' = CONNECT
                /\ message' = MsgConnecting(name)
                /\ pc' = "fast"
                /\ phase' = "update"
                /\ UNCHANGED <<error_msg, settings>>
           ELSE /\ pc' = "fresh"
                /\ phase' = "update"
                /\ UNCHANGED <<state, message, error_msg, settings>>

\* fast path: the device is paired, one connect attempt; on failure the bond is cleared
EngineFast ==
    /\ pc = "fast"
    /\ \E r \in TryConnectResults(eng.mac) :
         IF r.connected
         THEN /\ calls' = calls \o r.calls
              /\ eng' = [eng EXCEPT !.fast = "connected", !.io = r.io]
              /\ _finish_connect(eng.mac, eng.name)
         ELSE /\ calls' = calls \o r.calls \o _remove_device(eng.mac)
              /\ eng' = [eng EXCEPT !.fast = "failed", !.io = r.io]
              /\ pc' = "fresh"
              /\ UNCHANGED <<state, message, error_msg, settings, phase>>
    /\ UNCHANGED <<playlist, world, tree, fs, current_screen, hci, hci_index, adapter_mac, devices, selected, scroll_offset, _pair_pending, _pair_draw_wait, return_screen, since_scan, display, seen, op, event, ret>>

\* `bluetoothctl devices` as the app tree reads it before pairing: the device is listed or not
LeftoverOutputs(mac) == IF world = "engine" THEN {<<>>, <<"Device", SP>> \o mac \o <<SP, "Speaker">>} ELSE {<<>>}

\* head of the fresh-pair section; the app tree first removes a leftover entry
EngineFresh ==
    /\ pc = "fresh"
    /\ state' = PAIR
    /\ message' = MsgPairing(eng.name)
    /\ \E devs_out \in LeftoverOutputs(eng.mac) :
         calls' = calls \o
                  (IF tree = "app"
                   THEN <<Cmd("bluetoothctl", "devices", <<>>)>> \o
                        (IF Contains(_run(devs_out), <<"Device", SP>> \o eng.mac) THEN <<Cmd("bluetoothctl", "remove", eng.mac)>> ELSE <<>>)
                   ELSE <<>>)
    /\ pc' = "pair"
    /\ eng' = [eng EXCEPT !.pair_attempt = 0, !.paired = FALSE, !.io = <<>>]
    /\ UNCHANGED <<playlist, world, tree, fs, current_screen, phase, hci, hci_index, adapter_mac, devices, selected, scroll_offset, error_msg, _pair_pending, _pair_draw_wait, return_screen, since_scan, settings, display, seen, op, event, ret>>

\* what a failed pairing attempt does before the next one
PairRetryCalls(mac) ==
    IF tree = "payload" THEN _remove_device(mac) \o <<Cmd("bluetoothctl", "scan", <<"on">>)>> ELSE <<>>

\* one iteration of the pairing loop; success trusts the device and enters
\* the connect loop, the last failure ends in ERROR
EnginePair ==
    /\ pc = "pair"
    /\ \E r \in DoPairResults(eng.mac) :
         IF r.ok
         THEN /\ calls' = calls \o r.calls \o <<Cmd("bluetoothctl", "trust", eng.mac)>>
              /\ state' = CONNECT
              /\ message' = MsgConnecting(eng.name)
              /\ pc' = "connect"
              /\ eng' = [eng EXCEPT !.paired = TRUE, !.attempt = 0, !.io = r.io]
              /\ UNCHANGED <<error_msg, settings, phase>>
         ELSE /\ calls' = calls \o r.calls \o PairRetryCalls(eng.mac)
              /\ eng' = [eng EXCEPT !.pair_attempt = @ + 1, !.io = r.io]
              /\ IF eng.pair_attempt + 1 < PairAttempts
                 THEN UNCHANGED <<state, message, error_msg, settings, phase, pc>>
                 ELSE EngineError(MSG_PAIRING_FAILED)
    /\ UNCHANGED <<playlist, world, tree, fs, current_screen, hci, hci_index, adapter_mac, devices, selected, scroll_offset, _pair_pending, _pair_draw_wait, return_screen, since_scan, display, seen, op, event, ret>>

\* the re-pair of the connect loop: remove the bond, pair, trust when paired
RepairCalls(mac, p) == _remove_device(mac) \o p.calls \o (IF p.ok THEN <<Cmd("bluetoothctl", "trust", mac)>> ELSE <<>>)

\* the repair after every attempt, the last one included
ShouldRepair_Always(auth_fail, attempt) == auth_fail /\ attempt < 3

\* the repair on the first attempt only
ShouldRepair_FirstOnly(auth_fail, attempt) == auth_fail /\ attempt < 1

\* `if auth_fail and attempt < 2`
ShouldRepair(auth_fail, attempt) == auth_fail /\ attempt < 2

\* one iteration of the post-pair connect loop
EngineConnect ==
    /\ pc = "connect"
    /\ \E r \in TryConnectResults(eng.mac) :
         IF r.connected
         THEN /\ calls' = calls \o r.calls
              /\ eng' = [eng EXCEPT !.auth_fail = r.auth_fail, !.io = r.io]
              /\ _finish_connect(eng.mac, eng.name)
         ELSE /\ IF ShouldRepair(r.auth_fail, eng.attempt)
                 THEN \E p \in DoPairResults(eng.mac) :
                        /\ calls' = calls \o r.calls \o RepairCalls(eng.mac, p)
                        /\ eng' = [eng EXCEPT !.attempt = @ + 1, !.auth_fail = r.auth_fail, !.io = r.io \o p.io]
                 ELSE /\ calls' = calls \o r.calls
                      /\ eng' = [eng EXCEPT !.attempt = @ + 1, !.auth_fail = r.auth_fail, !.io = r.io]
              /\ IF eng.attempt + 1 < ConnectAttempts
                 THEN UNCHANGED <<state, message, error_msg, settings, phase, pc>>
                 ELSE EngineError(MSG_CONNECTION_FAILED)
    /\ UNCHANGED <<playlist, world, tree, fs, current_screen, hci, hci_index, adapter_mac, devices, selected, scroll_offset, _pair_pending, _pair_draw_wait, return_screen, since_scan, display, seen, op, event, ret>>

\* ------------------------------------------------------------ the wizard

\* `bluetoothctl devices Paired`, and the discovered devices (`bluetoothctl
\* devices` in the payload tree, the hcitool scan file in the app tree)
DeviceLine(mac, name) == <<"Device", SP>> \o mac \o <<SP>> \o name
HcitoolLine(mac, name) == <<SP>> \o mac \o <<SP>> \o name
NAME1 == <<"JBL", SP, "Go">>
NAME2 == <<"LE-", "Buds">>
NAME3 == <<"Car", SP, "Kit">>
NAME4 == <<"Amp", SP, "[paired]">>

\* most lines a command prints in the "lines" world
MaxLines == 2

RECURSIVE Join(_)
\* the lines, separated by newlines
Join(lines) == IF lines = <<>> THEN <<>> ELSE IF Len(lines) = 1 THEN Head(lines) ELSE Head(lines) \o <<NL>> \o Join(Tail(lines))

\* every output of at most MaxLines lines, each from the set
OutputsOf(lineset) == {Join(ls) : ls \in UNION {[1..k -> lineset] : k \in 0..MaxLines}}

\* lines of `bluetoothctl devices Paired`: devices, a device without a name, an error text
PairedLines == {DeviceLine(MAC1, NAME1), DeviceLine(MAC2, NAME2), DeviceLine(MAC3, MAC3), <<"Device", SP>> \o MAC3}
\* lines of `bluetoothctl devices`: named devices, a low-energy name, an address as name
DeviceLines == {DeviceLine(MAC1, NAME1), DeviceLine(MAC2, NAME2), DeviceLine(MAC3, NAME3), DeviceLine(MAC3, MAC3), DeviceLine(MAC3, <<"LE-">>)}
\* lines of the hcitool scan file: the banner, named devices, a device without a name
HcitoolLines == {<<"Scanning", SP, "...">>, HcitoolLine(MAC1, NAME1), HcitoolLine(MAC3, NAME3), <<SP>> \o MAC2}

\* a neighbourhood with one bonded device more than the list shows at a time
ManyDevices == Join([k \in 1..(visible_count + 1) |-> DeviceLine(<<ToString(k), ":", "0A">>, NAME1)])

PairedOutputs ==
    IF world = "lines" THEN OutputsOf(PairedLines)
    ELSE IF world = "list" THEN {ManyDevices, DeviceLine(MAC1, NAME1)}
    ELSE IF world = "scan" THEN {<<>>, DeviceLine(MAC1, NAME1), DeviceLine(MAC1, NAME4)}
    ELSE {DeviceLine(MAC1, NAME1)}
FoundOutputs ==
    IF world = "lines" THEN OutputsOf(IF tree = "payload" THEN DeviceLines ELSE HcitoolLines)
    ELSE IF world = "list" THEN {<<>>}
    ELSE (IF world = "scan" THEN {<<>>} ELSE {}) \cup
         (IF tree = "payload"
          THEN {DeviceLine(MAC1, NAME1) \o <<NL>> \o DeviceLine(MAC2, NAME2)}
          ELSE {<<"Scanning", SP, "...", NL>> \o HcitoolLine(MAC1, NAME1) \o <<NL>> \o HcitoolLine(MAC2, NAME2) \o <<NL>>})

\* the screens the user visits and opens the wizard from
OpenFrom == IF world = "host" THEN OtherScreens ELSE {"settings"}

\* enter()
enter ==
    /\ op' = "enter"
    /\ event' = NoEvent
    /\ _check_adapter(<<>>, <<>>)
    /\ eng' = NoEng
    /\ UNCHANGED <<selected, scroll_offset, _pair_pending, _pair_draw_wait, settings, pc, display, seen>>

\* "Strip tags" of handle_input
StripTags(name) == Replace(Replace(name, TAG_PAIRED, <<>>), TAG_SAVED, <<>>)

\* a wizard that answers Back with no token
BackToken_Nothing == None

\* a wizard that always returns to the settings screen
BackToken_Settings == "settings"

\* `return self.return_screen`
BackToken == return_screen

\* a last line that answers Back as the branches above it do
FallThrough_Back(button) ==
    /\ ret' = IF button = BTN_B THEN BackToken ELSE None
    /\ calls' = <<>>
    /\ UNCHANGED <<wizard, fs, since_scan>>

\* the last line of handle_input, reached in the states no branch names
FallThrough(button) ==
    /\ ret' = None
    /\ calls' = <<>>
    /\ UNCHANGED <<wizard, fs, since_scan>>

\* a Down press that moves past the last entry
StepDown_Free(sel, n) == sel + 1

\* `min(len(self.devices) - 1, self.selected + 1)`
StepDown(sel, n) == IF n - 1 < sel + 1 THEN n - 1 ELSE sel + 1

\* handle_input for a press: the branch of the state
HandlePress(button) ==
    IF state = SELECT_DEVICE
    THEN /\ calls' = <<>>
         /\ UNCHANGED <<fs, since_scan, hci, hci_index, adapter_mac, devices, error_msg, _pair_draw_wait, return_screen>>
         /\ IF button = BTN_UP
            THEN LET s == IF selected - 1 > 0 THEN selected - 1 ELSE 0
                 IN  /\ selected' = s
                     /\ scroll_offset' = IF s < scroll_offset THEN s ELSE scroll_offset
                     /\ ret' = None
                     /\ UNCHANGED <<state, message, _pair_pending>>
            ELSE IF button = BTN_DOWN
            THEN LET s == StepDown(selected, Len(devices))
                 IN  /\ selected' = s
                     /\ scroll_offset' = IF s >= scroll_offset + visible_count THEN s - visible_count + 1 ELSE scroll_offset
                     /\ ret' = None
                     /\ UNCHANGED <<state, message, _pair_pending>>
            ELSE IF button = BTN_A
            THEN /\ ret' = None
                 /\ IF devices # <<>>
                    THEN LET mac == devices[selected + 1][1]
                             name == StripTags(devices[selected + 1][2])
                         IN  /\ state' = PAIR
                             /\ message' = MsgPairing(name)
                             /\ _pair_pending' = <<mac, name>>
                             /\ UNCHANGED <<selected, scroll_offset>>
                    ELSE UNCHANGED <<state, message, _pair_pending, selected, scroll_offset>>
            ELSE /\ ret' = IF button = BTN_B THEN BackToken ELSE None
                 /\ UNCHANGED <<state, message, _pair_pending, selected, scroll_offset>>
    ELSE IF state = SCAN
    THEN IF button = BTN_A
         THEN /\ ret' = None
              /\ message' = MSG_SCANNING
              /\ devices' = <<>>
              /\ since_scan' = 0
              /\ \E btd_out \in ScanBtdOutputs : calls' = StartScanCalls(hci, btd_out)
              /\ UNCHANGED <<fs, state, hci, hci_index, adapter_mac, selected, scroll_offset, error_msg, _pair_pending, _pair_draw_wait, return_screen>>
         ELSE /\ ret' = IF button = BTN_B THEN BackToken ELSE None
              /\ calls' = <<>>
              /\ UNCHANGED <<wizard, fs, since_scan>>
    ELSE IF state = ERROR
    THEN IF button = BTN_A
         THEN /\ ret' = None
              /\ _check_adapter(devices, error_msg)
              /\ UNCHANGED <<selected, scroll_offset, _pair_pending, _pair_draw_wait, return_screen>>
         ELSE /\ ret' = IF button = BTN_B THEN BackToken ELSE None
              /\ calls' = <<>>
              /\ UNCHANGED <<wizard, fs, since_scan>>
    ELSE IF state = DONE
    THEN /\ ret' = IF button = BTN_A \/ button = BTN_B THEN BackToken ELSE None
         /\ calls' = <<>>
         /\ UNCHANGED <<wizard, fs, since_scan>>
    ELSE IF state = CHECK_ADAPTER
    THEN /\ ret' = IF button = BTN_B THEN BackToken ELSE None
         /\ calls' = <<>>
         /\ UNCHANGED <<wizard, fs, since_scan>>
    ELSE FallThrough(button)

\* handle_input without the test of the event type
handle_input_AnyEvent(button, event_type) ==
    /\ op' = "handle_input"
    /\ event' = <<button, event_type>>
    /\ eng' = NoEng
    /\ HandlePress(button)

\* handle_input(button, event_type): the wizard's fields after it, and ret
handle_input(button, event_type) ==
    /\ op' = "handle_input"
    /\ event' = <<button, event_type>>
    /\ eng' = NoEng
    /\ IF event_type # PRESS
       THEN /\ ret' = None
            /\ calls' = <<>>
            /\ UNCHANGED <<wizard, fs, since_scan>>
       ELSE HandlePress(button)

\* a request that stays in the slot when the engine starts
ClearedRequest_Kept == _pair_pending

\* `self._pair_pending = None`
ClearedRequest == NoRequest

\* the engine runs on the third update
DrawWait_Three == 2 + 1

\* the engine runs on the first update
DrawWait_None == 2 - 1

\* `if self._pair_draw_wait < 2: return`
DrawWait == 2

\* update(status)
update ==
    /\ IF _pair_pending # NoRequest
       THEN IF _pair_draw_wait + 1 < DrawWait
            THEN /\ _pair_draw_wait' = _pair_draw_wait + 1
                 /\ op' = "update"
                 /\ event' = NoEvent
                 /\ calls' = <<>>
                 /\ phase' = "draw"
                 /\ eng' = NoEng
                 /\ UNCHANGED <<state, devices, selected, message, error_msg, _pair_pending, settings, pc, seen>>
            ELSE /\ _pair_pending' = ClearedRequest
                 /\ _pair_draw_wait' = 0
                 /\ op' = "_pair_device"
                 /\ event' = NoEvent
                 /\ \E ps_out \in RelayOutputs, info_out \in InfoOutputs :
                      PairDeviceStart(_pair_pending[1], _pair_pending[2], ps_out, info_out)
                 /\ UNCHANGED <<devices, selected, seen>>
       ELSE IF state = SCAN
       THEN /\ \E paired_out \in PairedOutputs, found_out \in FoundOutputs : _poll_scan(paired_out, found_out)
            /\ op' = "update"
            /\ event' = NoEvent
            /\ phase' = "draw"
            /\ eng' = NoEng
            /\ UNCHANGED <<error_msg, _pair_pending, _pair_draw_wait, settings, pc>>
       ELSE /\ calls' = <<>>
            /\ op' = "update"
            /\ event' = NoEvent
            /\ phase' = "draw"
            /\ eng' = NoEng
            /\ UNCHANGED <<state, devices, selected, message, error_msg, _pair_pending, _pair_draw_wait, settings, pc, seen>>

\* the rows _draw_device_list paints: indices scroll_offset .. scroll_offset + visible_count - 1 that exist
DrawnRows == {i \in 0..(Len(devices) - 1) : scroll_offset <= i /\ i < scroll_offset + visible_count}

\* draw(): the header label, the text of the body, and the list rows
draw ==
    display' = [label |-> STATE_LABELS[state + 1],
                text |-> IF state = ERROR THEN error_msg ELSE IF state = SELECT_DEVICE THEN <<>> ELSE message,
                rows |-> IF state = SELECT_DEVICE THEN DrawnRows ELSE {}]

\* ------------------------------------------------------------ the playlist

\* Playlist.REPEAT_OFF, REPEAT_ALL, REPEAT_ONE
REPEAT_OFF == 0
REPEAT_ALL == 1
REPEAT_ONE == 2

\* most tracks the list holds
MaxTracks == 3

\* current_track_index() returning None
NoIndex == 0 - 1

MUSIC_DIR == <<"/", "mmc", "/", "music">>
SUPPORTED_EXT == {".mp3", ".wav"}

\* os.path.join(dir, name) for a relative name
PathJoin(dir, name) == dir \o <<"/">> \o name

\* the music files on the card
TrackA == PathJoin(MUSIC_DIR, <<"a", ".mp3">>)
TrackB == PathJoin(MUSIC_DIR, <<"b", ".wav">>)
TrackC == PathJoin(MUSIC_DIR, <<"A", ".MP3">>)
isfile(path) == path \in {TrackA, TrackB, TrackC}

\* what sorted(os.listdir(path)) can hold, in sorted order
SortedNames == << <<"A", ".MP3">>, <<"a", ".mp3">>, <<"b", ".wav">>, <<"notes", ".txt">> >>

\* the lines an .m3u file can hold: blank, comment, relative, absolute, missing
M3uLines == { <<NL>>, <<"#", "EXTM3U", NL>>, <<"a", ".mp3", NL>>, TrackB \o <<NL>>, <<"gone", ".mp3", NL>> }

\* the orders random.shuffle can leave of the indices 0 .. n-1
Orders(n) == {f \in [1..n -> 0..(n - 1)] : \A i, j \in 1..n : i # j => f[i] # f[j]}

\* _rebuild_order: list(range(n)), shuffled to `shuffled` when shuffle is on
_rebuild_order(n, on, shuffled) == IF on THEN shuffled ELSE [i \in 1..n |-> i - 1]

\* current_track_index()
current_track_index(ord, pos) == IF ord = <<>> \/ pos >= Len(ord) THEN NoIndex ELSE ord[pos + 1]

\* current_track() raises IndexError: self.tracks[idx] with idx outside the list
IndexError(trks, ord, pos) == current_track_index(ord, pos) # NoIndex /\ current_track_index(ord, pos) >= Len(trks)

\* Playlist.__init__
PlaylistInit ==
    /\ tracks = <<>>
    /\ order = <<>>
    /\ position = 0
    /\ shuffle = FALSE
    /\ repeat = REPEAT_OFF
    /\ raised = FALSE

\* clear()
clear ==
    /\ tracks' = <<>>
    /\ order' = <<>>
    /\ position' = 0
    /\ raised' = FALSE
    /\ UNCHANGED <<shuffle, repeat, app>>

\* the end of a load that read `trks`: _rebuild_order()
Loaded(trks) ==
    /\ tracks' = trks
    /\ \E shuffled \in Orders(Len(trks)) : order' = _rebuild_order(Len(trks), shuffle, shuffled)
    /\ position' = 0

\* a load that returns False before _rebuild_order
LoadFailed ==
    /\ tracks' = <<>>
    /\ UNCHANGED <<order, position>>

RECURSIVE M3uLoop(_, _, _)
\* the loop of load_m3u over the lines of the file
M3uLoop(lines, base_dir, acc) ==
    IF lines = <<>> THEN acc
    ELSE LET line == Strip(Head(lines))
             path == IF StartsWith(line, <<"/">>) THEN line ELSE PathJoin(base_dir, line)
         IN  M3uLoop(Tail(lines), base_dir,
                     IF line = <<>> \/ StartsWith(line, <<"#">>) THEN acc
                     ELSE IF isfile(path) THEN Append(acc, path) ELSE acc)

\* load_m3u(path) for a file in the music directory: open() fails, or the
\* file holds up to MaxLines lines
load_m3u ==
    /\ \E readable \in BOOLEAN, lines \in UNION {[1..k -> M3uLines] : k \in 0..MaxLines} :
         IF readable THEN Loaded(M3uLoop(lines, MUSIC_DIR, <<>>)) ELSE LoadFailed
    /\ raised' = FALSE
    /\ UNCHANGED <<shuffle, repeat, app>>

\* the supported files among the sorted names that are present
Supported(present) ==
    LET Keep(i) == present[i] /\ Lower(SortedNames[i])[Len(SortedNames[i])] \in SUPPORTED_EXT
        idx == SelectSeq([i \in 1..Len(SortedNames) |-> i], Keep)
    IN  [k \in 1..Len(idx) |-> PathJoin(MUSIC_DIR, SortedNames[idx[k]])]

\* load_directory(): the directory is missing, or holds some of the names
load_directory ==
    /\ \E isdir \in BOOLEAN, present \in [1..Len(SortedNames) -> BOOLEAN] :
         IF isdir THEN Loaded(Supported(present)) ELSE LoadFailed
    /\ raised' = FALSE
    /\ UNCHANGED <<shuffle, repeat, app>>

\* load_files(files)
load_files ==
    /\ \E files \in UNION {[1..k -> {TrackA, TrackB}] : k \in 0..MaxTracks} : Loaded(files)
    /\ raised' = FALSE
    /\ UNCHANGED <<shuffle, repeat, app>>

\* add(path), while the list and the order have room
add ==
    /\ Len(tracks) < MaxTracks
    /\ Len(order) < MaxTracks
    /\ \E path \in {TrackA, TrackB} : tracks' = Append(tracks, path)
    /\ order' = Append(order, Len(tracks))
    /\ raised' = FALSE
    /\ UNCHANGED <<position, shuffle, repeat, app>>

\* the list with the entries at positions i and j exchanged
Swapped(ord, i, j) == [ord EXCEPT ![i] = ord[j], ![j] = ord[i]]

\* set_shuffle(enabled)
set_shuffle ==
    /\ \E enabled \in BOOLEAN :
         IF shuffle = enabled THEN UNCHANGED <<order, position, shuffle>>
         ELSE LET current_track == current_track_index(order, position)
              IN  /\ shuffle' = enabled
                  /\ position' = 0
                  /\ \E shuffled \in Orders(Len(tracks)) :
                       LET rebuilt == _rebuild_order(Len(tracks), enabled, shuffled)
                       IN  order' = IF current_track # NoIndex /\ \E i \in 1..Len(rebuilt) : rebuilt[i] = current_track
                                    THEN Swapped(rebuilt, IndexOf(rebuilt, current_track), 1)
                                    ELSE rebuilt
    /\ raised' = FALSE
    /\ UNCHANGED <<tracks, repeat, app>>

\* cycle_repeat()
cycle_repeat ==
    /\ repeat' = (repeat + 1) % 3
    /\ raised' = FALSE
    /\ UNCHANGED <<tracks, order, position, shuffle, app>>

\* next()
next ==
    /\ IF order = <<>>
       THEN raised' = FALSE /\ UNCHANGED <<order, position>>
       ELSE IF repeat = REPEAT_ONE
       THEN raised' = IndexError(tracks, order, position) /\ UNCHANGED <<order, position>>
       ELSE IF position + 1 >= Len(order)
       THEN IF repeat = REPEAT_ALL
            THEN /\ position' = 0
                 /\ \E shuffled \in Orders(Len(tracks)) :
                      order' = IF shuffle THEN _rebuild_order(Len(tracks), shuffle, shuffled) ELSE order
                 /\ raised' = IndexError(tracks, order', 0)
            ELSE /\ position' = Len(order) - 1
                 /\ raised' = FALSE
                 /\ UNCHANGED order
       ELSE /\ position' = position + 1
            /\ raised' = IndexError(tracks, order, position + 1)
            /\ UNCHANGED order
    /\ UNCHANGED <<tracks, shuffle, repeat, app>>

\* prev()
prev ==
    /\ IF order = <<>>
       THEN raised' = FALSE /\ UNCHANGED position
       ELSE /\ position' = IF position - 1 < 0
                           THEN (IF repeat = REPEAT_ALL THEN Len(order) - 1 ELSE 0)
                           ELSE position - 1
            /\ raised' = IndexError(tracks, order, position')
    /\ UNCHANGED <<tracks, order, shuffle, repeat, app>>

\* jump_to(index)
jump_to ==
    /\ \E index \in NoIndex..MaxTracks :
         IF index < 0 \/ index >= Len(tracks) THEN UNCHANGED position
         ELSE position' = IF \E i \in 1..Len(order) : order[i] = index THEN IndexOf(order, index) - 1 ELSE 0
    /\ raised' = FALSE
    /\ UNCHANGED <<tracks, order, shuffle, repeat, app>>

\* jump_to_order(pos)
jump_to_order ==
    /\ \E pos \in NoIndex..MaxTracks :
         IF pos < 0 \/ pos >= Len(order) THEN raised' = FALSE /\ UNCHANGED position
         ELSE position' = pos /\ raised' = IndexError(tracks, order, pos)
    /\ UNCHANGED <<tracks, order, shuffle, repeat, app>>

\* the Playlist object alone: from construction its methods are called in
\* any order
NextPlaylist ==
    \/ clear
    \/ load_m3u
    \/ load_directory
    \/ load_files
    \/ add
    \/ set_shuffle
    \/ cycle_repeat
    \/ next
    \/ prev
    \/ jump_to
    \/ jump_to_order

\* ------------------------------------------------------------- the host

\* settings.json as load_settings finds it: the defaults, or a saved device
NoSaved == [bt_device_mac |-> <<>>, bt_device_name |-> <<>>]
Saved(mac, name) == [bt_device_mac |-> mac, bt_device_name |-> name]
InitSettings ==
    IF world = "lines" THEN {NoSaved, Saved(MAC3, NAME3), Saved(MAC1, NAME1)}
    ELSE IF world \in {"scan", "engine"} THEN {NoSaved, Saved(MAC3, NAME3)}
    ELSE {NoSaved}

\* the installation: everything the payload ships is present, or nothing is
Installed == [asound |-> TRUE, bluealsad |-> TRUE, dbus_conf |-> FALSE, policy_src |-> TRUE, initd_dbus |-> TRUE]
Bare == [asound |-> FALSE, bluealsad |-> FALSE, dbus_conf |-> FALSE, policy_src |-> FALSE, initd_dbus |-> FALSE]
FsConfigs == IF world = "services" THEN {Installed, Bare} ELSE {Installed}

\* BluetoothScreen.__init__, PagerAmp.__init__
InitWorld(w) ==
    /\ world = w
    /\ tree \in Trees
    /\ fs \in FsConfigs
    /\ current_screen = "start"
    /\ phase = "input"
    /\ state = CHECK_ADAPTER
    /\ hci = None
    /\ hci_index = "0"
    /\ adapter_mac = NoAddress
    /\ devices = <<>>
    /\ selected = 0
    /\ scroll_offset = 0
    /\ message = <<>>
    /\ error_msg = <<>>
    /\ _pair_pending = NoRequest
    /\ _pair_draw_wait = 0
    /\ return_screen = "settings"
    /\ since_scan = 0
    /\ settings \in InitSettings
    /\ pc = "idle"
    /\ eng = NoEng
    /\ calls = <<>>
    /\ display = [label |-> "", text |-> <<>>, rows |-> {}]
    /\ seen = {}
    /\ op = "init"
    /\ event = NoEvent
    /\ ret = None
    /\ PlaylistInit

\* PagerAmp.handle_input: one event dispatched to the wizard, and
\* _handle_screen_result on the token it returns
HostInputBluetooth ==
    /\ phase = "input"
    /\ pc = "idle"
    /\ current_screen = "bluetooth"
    /\ \E button \in Buttons, event_type \in EventTypes : handle_input(button, event_type)
    /\ current_screen' = IF ret' # None THEN ret' ELSE current_screen
    /\ UNCHANGED <<playlist, world, tree, phase, settings, pc, display, seen>>

\* another screen returns the name of a third one: _handle_screen_result
\* switches to it
HostNavigate ==
    /\ phase = "input"
    /\ pc = "idle"
    /\ current_screen \in OtherScreens
    /\ \E to \in OpenFrom \ {current_screen} : current_screen' = to
    /\ event' = NoEvent
    /\ UNCHANGED <<playlist, world, tree, fs, phase, wizard, since_scan, settings, pc, eng, calls, display, seen, op, ret>>

\* the current screen returns "bluetooth": _handle_screen_result records
\* the current screen as the return screen and _switch_screen calls enter()
HostOpenBluetooth ==
    /\ phase = "input"
    /\ pc = "idle"
    /\ current_screen \in OpenFrom
    /\ return_screen' = current_screen
    /\ current_screen' = "bluetooth"
    /\ enter
    /\ UNCHANGED <<playlist, world, tree, phase, ret>>

\* the event queue is empty: PagerAmp.handle_input returns, and
\* PagerAmp.update calls the current screen's update()
HostUpdate ==
    /\ phase = "input"
    /\ pc = "idle"
    /\ IF current_screen = "bluetooth"
       THEN /\ update
            /\ UNCHANGED <<playlist, world, tree, fs, current_screen, hci, hci_index, adapter_mac, scroll_offset, return_screen, since_scan, display, ret>>
       ELSE /\ phase' = "draw"
            /\ event' = NoEvent
            /\ UNCHANGED <<playlist, world, tree, fs, current_screen, wizard, since_scan, settings, pc, eng, calls, display, seen, op, ret>>

\* PagerAmp.draw and the frame's sleep: up to a second passes
HostDraw ==
    /\ phase = "draw"
    /\ pc = "idle"
    /\ IF current_screen = "bluetooth"
       THEN draw /\ op' = "draw"
       ELSE display' = [label |-> current_screen, text |-> <<>>, rows |-> {}] /\ UNCHANGED op
    /\ phase' = "input"
    /\ \E d \in {0, Tick} : since_scan' = IF since_scan + d > scan_duration THEN scan_duration ELSE since_scan + d
    /\ UNCHANGED <<playlist, world, tree, fs, current_screen, wizard, settings, pc, eng, calls, seen, event, ret>>

Next ==
    \/ HostInputBluetooth
    \/ HostNavigate
    \/ HostOpenBluetooth
    \/ HostUpdate
    \/ EngineFast
    \/ EngineFresh
    \/ EnginePair
    \/ EngineConnect
    \/ HostDraw

\* the wizard under the host loop.  One part of the environment varies per
\* behaviour: the adapters ("adapter"), the services and installed files
\* ("services"), the scan results ("scan") or the screen the wizard is opened
\* from ("host"); the rest answers from small sets.
Init == \E w \in {"adapter", "services", "scan", "host"} : InitWorld(w)
Spec == Init /\ [][Next]_vars

\* the same program; the engine's tools answer in every way, the adapter
\* and the scan in one way
InitEngine == InitWorld("engine")
SpecEngine == InitEngine /\ [][Next]_vars

\* the engine is straight-line code inside update(): when the command it
\* waits for returns, its next step runs
EngineStep == EngineFast \/ EngineFresh \/ EnginePair \/ EngineConnect
\* every engine step moves the engine's position or adds to the log
engvars == <<pc, calls>>
InitFair == InitWorld("fair")
SpecEngineFair == InitFair /\ [][Next]_vars /\ WF_engvars(EngineStep)

\* the same program; the texts the engine's connect and pair commands and
\* their info queries print are kept with the engine's locals
InitTruth == InitWorld("truth")
SpecTruth == InitTruth /\ [][Next]_vars

\* the same program where more devices are bonded than the list shows at a
\* time, or one device is
InitList == InitWorld("list")
SpecList == InitList /\ [][Next]_vars

InitPlaylist == InitWorld("playlist") /\ tree = "app"
SpecPlaylist == InitPlaylist /\ [][NextPlaylist]_vars

\* the BluetoothScreen object alone: from construction its four methods are
\* called in any order, each to its end (the engine inside update included)
WizardEnter ==
    /\ pc = "idle"
    /\ enter
    /\ UNCHANGED <<playlist, world, tree, current_screen, phase, return_screen, ret>>

WizardInput ==
    /\ pc = "idle"
    /\ \E button \in Buttons, event_type \in EventTypes : handle_input(button, event_type)
    /\ UNCHANGED <<playlist, world, tree, current_screen, phase, settings, pc, display, seen>>

WizardUpdate ==
    /\ pc = "idle"
    /\ update
    /\ UNCHANGED <<playlist, world, tree, fs, current_screen, hci, hci_index, adapter_mac, scroll_offset, return_screen, since_scan, display, ret>>

WizardDraw ==
    /\ pc = "idle"
    /\ draw
    /\ op' = "draw"
    /\ event' = NoEvent
    /\ phase' = "input"
    /\ \E d \in {0, Tick} : since_scan' = IF since_scan + d > scan_duration THEN scan_duration ELSE since_scan + d
    /\ UNCHANGED <<playlist, world, tree, fs, current_screen, wizard, settings, pc, eng, calls, seen, ret>>

NextWizard ==
    \/ WizardEnter
    \/ WizardInput
    \/ WizardUpdate
    \/ EngineFast
    \/ EngineFresh
    \/ EnginePair
    \/ EngineConnect
    \/ WizardDraw

InitWizard == InitWorld("unit")
SpecWizard == InitWizard /\ [][NextWizard]_vars

\* the aggregation alone: the wizard is in SCAN on the "settings" screen's
\* request, the scan time has passed, and the two device queries print any
\* lines.  The frames run until a device list is shown.
InitScan ==
    /\ world = "lines"
    /\ tree \in Trees
    /\ fs = IF tree = "payload" THEN [Installed EXCEPT !.dbus_conf = TRUE] ELSE Installed
    /\ current_screen = "bluetooth"
    /\ phase = "input"
    /\ state = SCAN
    /\ hci = "hci0"
    /\ hci_index = "0"
    /\ adapter_mac = ADAPTER_MAC
    /\ devices = <<>>
    /\ selected = 0
    /\ scroll_offset = 0
    /\ message = MsgRemaining(Tick)
    /\ error_msg = <<>>
    /\ _pair_pending = NoRequest
    /\ _pair_draw_wait = 0
    /\ return_screen = "settings"
    /\ since_scan = scan_duration
    /\ settings \in InitSettings
    /\ pc = "idle"
    /\ eng = NoEng
    /\ calls = <<>>
    /\ display = [label |-> STATE_LABELS[SCAN + 1], text |-> MsgRemaining(Tick), rows |-> {}]
    /\ seen = {}
    /\ op = "draw"
    /\ event = NoEvent
    /\ ret = None
    /\ PlaylistInit

ScanUpdate == state = SCAN /\ HostUpdate
NextScan ==
    \/ ScanUpdate
    \/ HostDraw
SpecScan == InitScan /\ [][NextScan]_vars

\* ---------------------------------------------------------- properties

\* the positions in the log of the engine's calls, with one of the verbs, for its device
Idx(verbs) == {i \in 1..Len(calls) : calls[i][1] \in {"bluetoothctl", "btmgmt"} /\ calls[i][2] \in verbs /\ calls[i][3] = eng.mac}
Min(S) == CHOOSE x \in S : \A y \in S : x <= y

\* a call of _pair_device is running or was the last handler to run; it has returned
EngineCall == op = "_pair_device"
EngineReturned == op = "_pair_device" /\ pc = "idle"

\* C1 (engine fast exit): when the info query at the start of _pair_device
\* reports "Connected: yes", the call issues no pair, connect, disconnect,
\* remove or trust for the device, and has ended with the wizard in DONE.
C1_FastExit ==
    EngineCall /\ eng.already_connected =>
        /\ Idx({"pair", "connect", "disconnect", "remove", "trust"}) = {}
        /\ pc = "idle"
        /\ state = DONE

\* C1's case: a device reported paired and connected, the call over
C1_Witness == EngineReturned /\ eng.already_connected /\ eng.already_paired /\ state = DONE

\* C2 (stale-bond repair): when the info query reports the device paired and
\* not connected and the fast path's connect attempt leaves it unconnected,
\* the log holds a disconnect and then a remove, every pair call comes after
\* that remove, and a call that ended in ERROR has made a pair call.
C2_StaleBondRepair ==
    EngineCall /\ eng.already_paired /\ ~eng.already_connected /\ eng.fast = "failed" =>
        LET rm == Idx({"remove"})
            dc == Idx({"disconnect"})
            pr == Idx({"pair"})
        IN  /\ rm # {}
            /\ dc # {}
            /\ Min(dc) < Min(rm)
            /\ \A p \in pr : Min(rm) < p
            /\ (pc = "idle" /\ state = ERROR => pr # {})

\* C2's case: the fast path failed, the bond was removed, and the fresh pairing failed
C2_Witness == EngineReturned /\ eng.fast = "failed" /\ state = ERROR /\ Idx({"pair"}) # {}

\* C3 (pairing retry budget, payload tree): a call in which no pairing attempt
\* of the fresh-pairing phase succeeded has made exactly 3 pair calls, ended in
\* ERROR with "Pairing failed.", made no trust call and no connect call after
\* its first pair call; and "Pairing failed." is reported only after 3 failed
\* attempts.
C3_PairBudget ==
    tree = "payload" /\ EngineReturned =>
        LET pr == Idx({"pair"})
        IN  /\ (pr # {} /\ ~eng.paired =>
                  /\ Cardinality(pr) = 3
                  /\ state = ERROR
                  /\ error_msg = MSG_PAIRING_FAILED
                  /\ Idx({"trust"}) = {}
                  /\ \A c \in Idx({"connect"}) : c < Min(pr))
            /\ (state = ERROR /\ error_msg = MSG_PAIRING_FAILED => Cardinality(pr) = 3 /\ ~eng.paired)

\* C3's case: the payload tree's engine gave up pairing
C3_Witness == tree = "payload" /\ EngineReturned /\ state = ERROR /\ error_msg = MSG_PAIRING_FAILED /\ Cardinality(Idx({"pair"})) = 3

\* C4 (authentication-failure repair): a step of the post-pair connect loop
\* that fails attempt k = 1 or 2 and goes on to attempt k + 1 issues, after
\* its connect, one remove and then one pair when _try_connect classified the
\* failure as an authentication failure, and no remove and no pair otherwise.
C4_AuthRepair ==
    [][pc = "connect" /\ pc' = "connect" =>
        LET made == [i \in 1..(Len(calls') - Len(calls)) |-> calls'[Len(calls) + i]]
            at(verb) == {i \in 1..Len(made) : made[i][2] = verb /\ made[i][3] = eng.mac}
        IN  /\ eng'.attempt = eng.attempt + 1
            /\ eng'.attempt \in {1, 2}
            /\ at("connect") = {1}
            /\ IF eng'.auth_fail
               THEN /\ Cardinality(at("remove")) = 1
                    /\ Cardinality(at("pair")) = 1
                    /\ \A r \in at("remove"), p \in at("pair") : r < p
               ELSE at("remove") = {} /\ at("pair") = {}]_vars

\* C4's case: the second post-pair attempt failed on authentication and the
\* bond was removed and paired again before the third
C4_Witness ==
    /\ EngineCall /\ pc = "connect"
    /\ eng.attempt = 2 /\ eng.auth_fail
    /\ Cardinality(Idx({"remove"})) >= 1
    /\ Cardinality(Idx({"pair"})) >= 2

\* the connect calls made after the first pair call
PostPairConnects == {c \in Idx({"connect"}) : Idx({"pair"}) # {} /\ c > Min(Idx({"pair"}))}

\* C5 (connect retry budget): a call makes at most 3 connect attempts after
\* the fresh pairing; a call that paired and did not end in DONE ended in
\* ERROR with "Connection failed." after 3 of them, and "Connection failed."
\* is reported only after 3.
C5_ConnectBudget ==
    EngineCall =>
        /\ Cardinality(PostPairConnects) <= 3
        /\ (pc = "idle" /\ eng.paired /\ state # DONE =>
              state = ERROR /\ error_msg = MSG_CONNECTION_FAILED /\ Cardinality(PostPairConnects) = 3)
        /\ (pc = "idle" /\ state = ERROR /\ error_msg = MSG_CONNECTION_FAILED =>
              eng.paired /\ Cardinality(PostPairConnects) = 3)

\* C5's case: the pairing succeeded and three connect attempts failed
C5_Witness == EngineReturned /\ eng.paired /\ state = ERROR /\ error_msg = MSG_CONNECTION_FAILED /\ Cardinality(PostPairConnects) = 3

\* the device the user confirmed: the selected entry of the list
Confirmed == devices[selected + 1]
EndsWith(s, tag) == Len(s) >= Len(tag) /\ SubSeq(s, Len(s) - Len(tag) + 1, Len(s)) = tag
\* a display name without the tag the aggregation appended to it
Untagged(shown) ==
    IF EndsWith(shown, TAG_PAIRED) THEN SubSeq(shown, 1, Len(shown) - Len(TAG_PAIRED))
    ELSE IF EndsWith(shown, TAG_SAVED) THEN SubSeq(shown, 1, Len(shown) - Len(TAG_SAVED))
    ELSE shown

\* C6 (success postcondition): when a call of _pair_device has ended with the
\* wizard in DONE, bt_device_mac is the address of the confirmed device and
\* bt_device_name is its display name without the appended tag.
C6_SuccessPostcondition ==
    EngineReturned /\ state = DONE =>
        /\ settings.bt_device_mac = Confirmed[1]
        /\ settings.bt_device_name = Untagged(Confirmed[2])

\* the same postcondition for the devices whose own name holds neither tag text
C6_PlainNames ==
    EngineReturned /\ state = DONE /\ ~Contains(Untagged(Confirmed[2]), TAG_PAIRED) /\ ~Contains(Untagged(Confirmed[2]), TAG_SAVED) =>
        /\ settings.bt_device_mac = Confirmed[1]
        /\ settings.bt_device_name = Untagged(Confirmed[2])

\* C7 (settings frame): a step that changes the settings ends with the wizard in DONE.
C7_SettingsFrame == [][settings' # settings => state' = DONE]_vars

\* C7's case: a device was saved, and a call of _pair_device for another
\* device ended in ERROR with the saved device still in the settings
C7_Witness == EngineReturned /\ state = ERROR /\ settings = Saved(MAC3, NAME3) /\ eng.mac # MAC3

\* the commands of a log, without the texts they printed
Commands(log) == [k \in 1..Len(log) |-> <<log[k][1], log[k][2], log[k][3]>>]

\* _poll_scan has aggregated: its two queries are the last commands issued
Aggregated == Commands(calls) = PollScanCalls

\* C8 (device-list uniqueness): after an aggregation no two entries of the
\* device list have the same address.
C8_UniqueAddresses ==
    Aggregated => \A i, j \in 1..Len(devices) : i # j => devices[i][1] # devices[j][1]

\* C8's case: the saved device is also among three devices the sources reported
C8_Witness == Aggregated /\ Len(devices) = 3 /\ settings.bt_device_mac \in seen

\* C9 (saved-device entry): after an aggregation, the list holds an entry for
\* the saved device tagged " [saved]" exactly when the saved address is not
\* empty and not among the addresses accepted from the two sources; then it
\* is the first entry and the only one, and every other entry is an accepted
\* address.
C9_SavedEntry ==
    Aggregated =>
        LET saved == settings.bt_device_mac
            entry == <<settings.bt_device_mac, settings.bt_device_name \o TAG_SAVED>>
            synthetic == {i \in 1..Len(devices) : devices[i][1] \notin seen}
        IN  IF saved # <<>> /\ saved \notin seen
            THEN synthetic = {1} /\ devices[1] = entry
            ELSE synthetic = {}

\* C9's case: the saved device was not reported, two others were
C9_Witness == Aggregated /\ Len(devices) = 3 /\ settings.bt_device_mac \notin seen /\ settings.bt_device_mac # <<>>

\* C10 (deferred pairing paints first): handle_input leaves the engine idle
\* and issues no command when it records a pending pairing, and the step in
\* which update() starts _pair_device finds the last frame drawn with the
\* PAIR label and the "Pairing with <name>..." message of that device.
C10_PaintsFirst ==
    [][/\ (op' = "handle_input" /\ _pair_pending' # NoRequest => pc' = "idle" /\ calls' = <<>> /\ state' = PAIR)
       /\ (pc = "idle" /\ op' = "_pair_device" =>
             /\ display.label = STATE_LABELS[PAIR + 1]
             /\ display.text = MsgPairing(eng'.name))]_vars

\* C10's case: the engine is running and the frame on screen is the pairing frame
C10_Witness == EngineCall /\ pc # "idle" /\ display.label = STATE_LABELS[PAIR + 1] /\ display.text = MsgPairing(eng.name)

\* ------------------------------------------------------- input and states

\* C11: a call of handle_input whose event type is not a press returns no
\* token, changes no field of the wizard and runs no command
C11_PressOnly ==
    [][\A b \in Buttons, e \in EventTypes \ {PRESS} :
         event' = <<b, e>> => ret' = None /\ calls' = <<>> /\ UNCHANGED wizard]_vars

\* the Back button was released on the device list, and the wizard stayed open
C11_Witness ==
    /\ event = <<BTN_B, RELEASE>>
    /\ state = SELECT_DEVICE
    /\ devices # <<>>
    /\ current_screen = "bluetooth"
    /\ ret = None

\* the states in which handle_input answers a button with a token
BackStates == {SELECT_DEVICE, SCAN, ERROR, DONE}

\* C12 as stated: handle_input returns a token only in SelectDevice, Scan,
\* Error and Done; in CheckAdapter, Pair and Connect it returns none for
\* every button
C12_BackRestricted ==
    [][\A b \in Buttons, e \in EventTypes :
         event' = <<b, e>> /\ state \notin BackStates => ret' = None]_vars

\* C12, amended: handle_input returns a token only for a press, only in
\* SelectDevice, Scan, Error, Done (Back; in Done also Confirm) and in
\* CheckAdapter (Back); in Pair and Connect every button returns none and
\* changes no field
C12_BackStates ==
    [][\A b \in Buttons, e \in EventTypes :
         event' = <<b, e>> =>
           /\ ret' # None =>
                /\ e = PRESS
                /\ state \in BackStates \cup {CHECK_ADAPTER}
                /\ b = BTN_B \/ (state = DONE /\ b = BTN_A)
           /\ state \in {PAIR, CONNECT} => ret' = None /\ UNCHANGED wizard]_vars

\* Back was pressed while a pairing request was waiting: the wizard is
\* still in Pair with the request, and no token came back
C12_Witness ==
    /\ event = <<BTN_B, PRESS>>
    /\ state = PAIR
    /\ _pair_pending # NoRequest
    /\ ret = None

\* the host opens the wizard in this step
Opened == current_screen # "bluetooth" /\ current_screen' = "bluetooth"

\* C13: every token handle_input returns is the return screen recorded when
\* the wizard was opened, which is the host's current screen at that moment
\* and stays as recorded until the next opening; the host switches to it;
\* and a Back press changes no field of the wizard
C13_BackReturns ==
    [][/\ \A b \in Buttons, e \in EventTypes :
            event' = <<b, e>> /\ ret' # None => ret' = return_screen /\ current_screen' = return_screen
       /\ Opened => return_screen' = current_screen
       /\ return_screen' # return_screen => Opened
       /\ event' = <<BTN_B, PRESS>> => UNCHANGED wizard]_vars

\* the wizard was opened from the now-playing screen, and Back on its
\* device list has brought the host back there
C13_Witness ==
    /\ event = <<BTN_B, PRESS>>
    /\ state = SELECT_DEVICE
    /\ ret = "now_playing"
    /\ return_screen = "now_playing"
    /\ current_screen = "now_playing"

\* ------------------------------------------------------ adapter selection

\* the claims' words for a usable controller: its info text contains
\* 'Bus: USB' and does not contain 'MediaTek'
Qualifies(info) == Contains(info, <<"Bus:", SP, "USB">>) /\ ~Contains(info, <<"MediaTek">>)

\* this step is a Retry press in Error
Retried == state = ERROR /\ event' = <<BTN_A, PRESS>>

\* the texts `hciconfig -a` printed to the adapter selection this step ran
\* (in enter, or on Retry), in the order of the queries
InfosRead == [i \in {k \in 1..Len(calls') : calls'[k][1] = "hciconfig" /\ calls'[k][2] = "-a"} |-> calls'[i][4]]

\* hci0 or hci1 was reported with a usable info text
AnyQualifies == \E i \in DOMAIN InfosRead : Qualifies(InfosRead[i])

\* C14: in Error a Retry press re-runs the adapter selection, which ends in
\* Scan when hci0 or hci1 is a usable controller and in Error otherwise, and
\* a Back press returns the token of the return screen: the host leaves the
\* wizard
C14_ErrorRecoverable ==
    [][/\ Retried =>
            /\ ret' = None
            /\ DOMAIN InfosRead # {}
            /\ state' \in {SCAN, ERROR}
            /\ state' = SCAN <=> AnyQualifies
       /\ state = ERROR /\ event' = <<BTN_B, PRESS>> =>
            ret' = return_screen /\ ret' # None /\ current_screen' = return_screen]_vars

\* Retry after the dongle was plugged in: the wizard scans on the controller
\* found, the old error text still in its field
C14_Witness ==
    /\ event = <<BTN_A, PRESS>>
    /\ state = SCAN
    /\ error_msg = MSG_NO_DONGLE
    /\ hci = "hci1"
    /\ since_scan = 0

\* this step ran the adapter selection: in enter, or on Retry
Selecting == op' = "enter" \/ Retried

\* the text `hciconfig -a` printed for controller h in this step, each in
\* a set; the empty set when h was not queried
InfoOf(h) == {calls'[k][4] : k \in {j \in 1..Len(calls') : calls'[j][1] = "hciconfig" /\ calls'[j][2] = "-a" /\ calls'[j][3] = <<h>>}}

\* some text printed for h is usable
Usable(h) == \E info \in InfoOf(h) : Qualifies(info)

\* C16: the adapter selection takes the first of hci0, hci1 whose info text
\* contains 'Bus: USB' and does not contain 'MediaTek', and goes on to Scan;
\* when neither qualifies it selects nothing and the wizard is in Error
\* with the message 'No USB BT dongle found'
C16_AdapterSelection ==
    [][Selecting =>
         /\ InfoOf("hci0") # {}
         /\ IF Usable("hci0")
            THEN hci' = "hci0" /\ hci_index' = "0" /\ state' = SCAN /\ InfoOf("hci1") = {}
            ELSE IF Usable("hci1")
            THEN hci' = "hci1" /\ hci_index' = "1" /\ state' = SCAN
            ELSE /\ InfoOf("hci1") # {}
                 /\ state' = ERROR
                 /\ error_msg' = MSG_NO_DONGLE
                 /\ UNCHANGED <<hci, hci_index, adapter_mac>>]_vars

\* hci0 was passed over and hci1 selected when the wizard was opened
C16_Witness ==
    /\ op = "enter"
    /\ state = SCAN
    /\ hci = "hci1"
    /\ \E k \in 1..Len(calls) : calls[k][1] = "hciconfig" /\ calls[k][2] = "-a" /\ calls[k][3] = <<"hci0">> /\ Contains(calls[k][4], <<"MediaTek">>)

\* the 'Address:' token
ADDRESS_TOKEN == <<"Address", ":">>

\* the positions of the tokens that follow an 'Address:' token
AfterAddress(parts) == {i \in 2..Len(parts) : parts[i - 1] = ADDRESS_TOKEN}

\* a and b are both None, or the same address
SameAddress(a, b) == IF a = NoAddress \/ b = NoAddress THEN a = NoAddress /\ b = NoAddress ELSE a = b

\* C17 as stated: when the info text of the controller selected holds an
\* 'Address:' token followed by a further token, the adapter's address is
\* the token that follows 'Address:'
C17_AddressExtraction ==
    [][Selecting /\ state' = SCAN =>
         \A info \in InfoOf(hci') :
           LET parts == SplitWs(info, -1)
           IN  AfterAddress(parts) # {} => SameAddress(parts[Min(AfterAddress(parts))], adapter_mac')]_vars

\* the lines that contain 'BD Address', by position
BdLines(lines) == {k \in 1..Len(lines) : Contains(lines[k], <<"BD", SP, "Address">>)}

\* C17, amended: when the first line of the info text that contains
\* 'BD Address' holds an 'Address:' token followed by a further token, the
\* adapter's address is the token that follows; in every other case (no
\* such line, or no such token in it) the address keeps the value it had
C17_AddressOfBdLine ==
    [][Selecting /\ state' = SCAN =>
         \A info \in InfoOf(hci') :
           LET lines == SplitOn(Strip(info), NL)
               parts == SplitWs(lines[Min(BdLines(lines))], -1)
           IN  IF BdLines(lines) # {} /\ AfterAddress(parts) # {}
               THEN SameAddress(parts[Min(AfterAddress(parts))], adapter_mac')
               ELSE SameAddress(adapter_mac, adapter_mac')]_vars

\* the wizard was opened on a controller whose info has the address line
C17_Witness ==
    /\ op = "enter"
    /\ state = SCAN
    /\ hci = "hci0"
    /\ adapter_mac = ADAPTER_MAC
    /\ \E k \in 1..Len(calls) : calls[k] = Query("hciconfig", "-a", <<"hci0">>, UsbInfo)

\* C15: whenever the host opens the wizard, whatever the previous session
\* left in its fields, enter() runs the adapter selection again and returns
\* with the wizard in Scan or Error, the device list empty and no pairing
\* request pending
C15_EntryResets ==
    [][Opened =>
         /\ op' = "enter"
         /\ InfoOf("hci0") # {}
         /\ state' \in {SCAN, ERROR}
         /\ devices' = <<>>
         /\ _pair_pending' = NoRequest]_vars

\* the wizard was opened again after a session that had moved down its
\* device list: the selection index is the old one, the list is empty
C15_Witness ==
    /\ op = "enter"
    /\ selected = 1
    /\ devices = <<>>
    /\ state \in {SCAN, ERROR}
    /\ _pair_pending = NoRequest

\* ------------------------------------------------------------- bootstrap

\* in this step `pidof` printed a pid for the daemon
Running(daemon) ==
    \E k \in 1..Len(calls') : calls'[k][1] = "pidof" /\ calls'[k][2] = daemon /\ Strip(calls'[k][4]) # <<>>

\* in this step ps showed the audio relay pinned to controller h
RelayOn(h) ==
    \E k \in 1..Len(calls') : calls'[k][1] = "ps" /\ Contains(calls'[k][4], <<"bluealsad", SP, "-i", SP, h>>)

\* the commands that copy the policy file or start, stop or restart a daemon
Disturbing == {c \in {calls'[k] : k \in 1..Len(calls')} : c[1] \in {"mkdir", "cp", "dbus-daemon", "/etc/init.d/dbus", "killall", "bluetoothd", "bluealsad"}}

\* C18: when the policy file exists, dbus-daemon and bluetoothd run and
\* the audio relay runs on the selected controller, the bootstrap steps of
\* the adapter selection start, stop and restart no daemon and copy no file
C18_BootstrapIdempotent ==
    [][/\ Selecting /\ state' = SCAN /\ tree = "payload"
       /\ fs.dbus_conf
       /\ Running("dbus-daemon") /\ Running("bluetoothd") /\ RelayOn(hci')
       => Disturbing = {} /\ fs' = fs]_vars

\* the wizard was opened a second time with every service up: the checks
\* were made and nothing was started
C18_Witness ==
    /\ op = "enter"
    /\ state = SCAN
    /\ tree = "payload"
    /\ fs.dbus_conf
    /\ \E k \in 1..Len(calls) : calls[k] = Query("pidof", "dbus-daemon", <<>>, <<"1234">>)
    /\ \E k \in 1..Len(calls) : calls[k] = Query("pidof", "bluetoothd", <<>>, <<"1234">>)
    /\ \E k \in 1..Len(calls) : calls[k] = Query("ps", "bluealsad", <<>>, PsText(hci))
    /\ \A k \in 1..Len(calls) : calls[k][1] \notin {"dbus-daemon", "bluetoothd", "bluealsad", "killall"}

\* ------------------------------------------------------------- the scan

\* this step is update() called on the wizard in Scan
ScanTick == current_screen = "bluetooth" /\ state = SCAN /\ phase = "input" /\ phase' = "draw"

\* C19: while less than the scan duration has passed since the scan was
\* started, an update tick leaves the wizard in Scan with an empty device
\* list, runs no command and changes only the countdown message; a Rescan
\* press starts the window again; and the aggregation runs only when the
\* full duration has passed since the last start
C19_ScanWindow ==
    [][/\ ScanTick /\ since_scan < scan_duration =>
            /\ devices = <<>>
            /\ calls' = <<>>
            /\ message' = MsgRemaining(since_scan)
            /\ UNCHANGED <<state, hci, hci_index, adapter_mac, devices, selected, scroll_offset, error_msg,
                           _pair_pending, _pair_draw_wait, return_screen, since_scan, settings>>
       /\ state = SCAN /\ event' = <<BTN_A, PRESS>> =>
            /\ since_scan' = 0
            /\ state' = SCAN
            /\ devices' = <<>>
            /\ \E k \in 1..Len(calls') : calls'[k][2] = "scan"
       /\ ScanTick /\ Commands(calls') = PollScanCalls => since_scan >= scan_duration]_vars

\* an update tick one frame into the window: the countdown is shown, the
\* list is empty, no command ran
C19_Witness ==
    /\ op = "update"
    /\ state = SCAN
    /\ since_scan = Tick
    /\ message = MsgRemaining(Tick)
    /\ devices = <<>>
    /\ calls = <<>>

\* this step is an update() that ran the aggregation
Aggregating == ScanTick /\ Commands(calls') = PollScanCalls

\* C20: an aggregation that yields an empty device list leaves the wizard
\* in Scan with the message 'No devices found. Scan again?', and the
\* wizard enters SelectDevice only in an aggregation that yields a
\* non-empty list
C20_EmptyScan ==
    [][/\ Aggregating /\ devices' = <<>> => state' = SCAN /\ message' = MSG_NONE_FOUND
       /\ state # SELECT_DEVICE /\ state' = SELECT_DEVICE => Aggregating /\ devices' # <<>>]_vars

\* the scan time passed, both queries ran, and nothing was found
C20_Witness ==
    /\ op = "update"
    /\ state = SCAN
    /\ Commands(calls) = PollScanCalls
    /\ devices = <<>>
    /\ message = MSG_NONE_FOUND
    /\ since_scan = scan_duration

RepairCycles == {r \in Idx({"remove"}) : Idx({"trust"}) # {} /\ r > Min(Idx({"trust"}))}
\* the pair calls of the connect loop
RePairs == {p \in Idx({"pair"}) : Idx({"trust"}) # {} /\ p > Min(Idx({"trust"}))}

\* C22 as stated (single bond-repair cycle): one engine call makes at most one
\* bond removal and re-pair in its post-pair connect loop.
C22_SingleRepair == EngineCall => Cardinality(RepairCycles) <= 1 /\ Cardinality(RePairs) <= 1

\* C22 (bond-repair cycles): one engine call makes at most two bond removals
\* and re-pairs in its post-pair connect loop, at most one per failed connect
\* attempt and none after the third attempt; each removal is followed by one
\* re-pair.
C22_TwoRepairs ==
    EngineCall =>
        /\ Cardinality(RepairCycles) <= 2
        /\ Cardinality(RePairs) = Cardinality(RepairCycles)
        /\ (eng.paired => Cardinality(RepairCycles) <= eng.attempt)
        /\ \A r \in RepairCycles :
             /\ \E c \in PostPairConnects : c < r /\ Cardinality({d \in PostPairConnects : d <= c}) <= 2
                                            /\ \A k \in (c + 1)..(r - 1) : calls[k][2] \in {"info", "disconnect"}
             /\ \E p \in RePairs : p > r /\ \A k \in (r + 1)..(p - 1) : calls[k][2] \notin {"connect", "remove"}

\* C22's case: the first and the second connect attempt failed on
\* authentication, and the bond was removed and paired again after each
C22_Witness == EngineCall /\ eng.paired /\ Cardinality(RepairCycles) = 2 /\ Cardinality(RePairs) = 2

\* a step in which the host calls the wizard's update()
UpdateStep ==
    /\ pc = "idle" /\ phase = "input" /\ current_screen = "bluetooth"
    /\ event' = NoEvent
    /\ op' \in {"update", "_pair_device"}
\* a step in which a Confirm press records a pending request
ConfirmAccepted == event' = <<BTN_A, PRESS>> /\ _pair_pending = NoRequest /\ _pair_pending' # NoRequest

\* C23 as stated (deferred execution): the first update() after the Confirm
\* press that recorded the request runs the engine and clears the pending
\* flag.
C23_NextUpdate ==
    [][UpdateStep /\ _pair_pending # NoRequest /\ _pair_draw_wait = 0 =>
         op' = "_pair_device" /\ _pair_pending' = NoRequest]_vars

\* C23 (deferred execution): a Confirm press records the request with no
\* update counted; the first update() that follows counts one frame, runs no
\* command and leaves the request pending and the state PAIR; the second
\* update() that follows runs the engine for that request and clears the
\* pending flag and the count.
C23_SecondUpdate ==
    [][/\ (ConfirmAccepted => _pair_draw_wait' = 0 /\ state' = PAIR)
       /\ (UpdateStep /\ _pair_pending # NoRequest /\ _pair_draw_wait = 0 =>
             /\ op' = "update"
             /\ calls' = <<>>
             /\ _pair_draw_wait' = 1
             /\ UNCHANGED <<_pair_pending, state, message>>)
       /\ (UpdateStep /\ _pair_pending # NoRequest /\ _pair_draw_wait # 0 =>
             /\ _pair_draw_wait = 1
             /\ op' = "_pair_device"
             /\ eng'.mac = _pair_pending[1]
             /\ eng'.name = _pair_pending[2]
             /\ _pair_pending' = NoRequest
             /\ _pair_draw_wait' = 0)
       /\ (UpdateStep /\ _pair_pending = NoRequest => op' = "update")]_vars

\* C23's case: the second update after the Confirm press started the engine
\* and cleared the request
C23_Witness ==
    /\ current_screen = "bluetooth"
    /\ op = "_pair_device"
    /\ _pair_pending = NoRequest /\ _pair_draw_wait = 0
    /\ eng.mac \in {d[1] : d \in {devices[i] : i \in 1..Len(devices)}}

\* a step in which update() starts the engine
EngineInvoked == UpdateStep /\ op' = "_pair_device"

\* a step that changes the pending slot
RequestChanged ==
    IF _pair_pending = NoRequest THEN _pair_pending' # NoRequest
    ELSE IF _pair_pending' = NoRequest THEN TRUE
    ELSE _pair_pending' # _pair_pending

FreshAddress(info) == ExtractAddress(_run(info), NoAddress)

\* C25 (no cross-session adapter state): when enter() returns, the adapter
\* id, index and address are those of the controller this enter() selected
\* and of its info text; when it selected none the wizard holds no adapter
\* id and no address, and when the info text yields no address it holds no
\* address.
C25_NoStaleAdapter ==
    [][op' = "enter" =>
         IF state' = SCAN
         THEN /\ Usable(hci')
              /\ hci_index' = HciIndex(hci')
              /\ \A info \in InfoOf(hci') : SameAddress(FreshAddress(info), adapter_mac')
         ELSE hci' = None /\ adapter_mac' = NoAddress]_vars

\* -------------------------------------------------- the daemon's answers

\* what the tools printed to the helper calls of this engine step
HeardNow == IF pc \in {"fast", "pair", "connect"} THEN eng'.io ELSE <<>>
\* the commands this engine step issued
MadeNow == [i \in 1..(Len(calls') - Len(calls)) |-> calls'[Len(calls) + i]]
\* the position among them of the call with the verb
MadeAt(verb) == {i \in 1..Len(MadeNow) : MadeNow[i][2] = verb}
\* the call with the verb is directly followed by an info query for the device
Requeried(verb) ==
    \A i \in MadeAt(verb) : i < Len(MadeNow) /\ MadeNow[i + 1] = Cmd("bluetoothctl", "info", eng.mac)
\* the call with the verb is not followed by an info query in this step
NotRequeried(verb) ==
    \A i \in MadeAt(verb) : \A j \in (i + 1)..Len(MadeNow) : MadeNow[j][2] # "info"

\* the engine took the connect of this step as connected: it finished in DONE
TookConnected == state' = DONE /\ pc' = "idle"
\* the engine took the pair call of this step as paired: the fresh-pairing
\* phase ended paired, or the re-pair was followed by the trust call
TookPaired == IF pc = "pair" THEN eng'.paired ELSE MadeAt("trust") # {}

\* the pair command's text announces a bond
SaysPaired(out) ==
    \/ Contains(out, <<"Already", SP, "Paired">>)
    \/ IF tree = "payload" THEN Contains(out, <<"Pairing", SP, "successful">>) ELSE Contains(out, <<"status", SP, "0x00">>)
\* the app tree's pair command announces a failure
SaysFailed(out) == tree = "app" /\ ~SaysPaired(out) /\ Contains(Lower(out), <<"failed">>)

\* C26 as stated (every mutating call is re-queried): every pair call and
\* every connect call of the engine is followed by an info query, and the
\* engine takes the call as successful exactly when that query reports the
\* bond, respectively the connection.
C26_AlwaysRequeried ==
    [][\A k \in 1..Len(HeardNow) :
         LET e == HeardNow[k]
         IN  /\ e.asked
             /\ Requeried(e.verb)
             /\ e.verb = "connect" => (TookConnected <=> Contains(_run(e.info), <<"Connected:", SP, "yes">>))
             /\ e.verb = "pair" => (TookPaired <=> Contains(_run(e.info), <<"Paired:", SP, "yes">>))]_vars

\* C26 (re-query after mutating calls): every connect call is directly
\* followed by an info query and taken as connected exactly when that query
\* reports 'Connected: yes'.  A pair call whose text announces a bond is
\* taken as paired, and one whose text announces a failure (app tree) as not
\* paired, without an info query; every other pair call is directly followed
\* by an info query and taken as paired exactly when that query reports
\* 'Paired: yes'.
C26_RequeriedUnlessTold ==
    [][\A k \in 1..Len(HeardNow) :
         LET e == HeardNow[k]
             out == _run(e.out)
         IN  /\ e.verb = "connect" =>
                  /\ e.asked /\ Requeried("connect")
                  /\ TookConnected <=> Contains(_run(e.info), <<"Connected:", SP, "yes">>)
             /\ e.verb = "pair" =>
                  /\ MadeAt("pair") # {}
                  /\ IF SaysPaired(out) THEN ~e.asked /\ NotRequeried("pair") /\ TookPaired
                     ELSE IF SaysFailed(out) THEN ~e.asked /\ NotRequeried("pair") /\ ~TookPaired
                     ELSE /\ e.asked /\ Requeried("pair")
                          /\ TookPaired <=> Contains(_run(e.info), <<"Paired:", SP, "yes">>)]_vars

\* C26's case: the pair command printed a success text, and the engine went
\* on to the connect loop without an info query
C26_Witness ==
    /\ EngineCall /\ pc = "connect" /\ eng.paired /\ eng.attempt = 0
    /\ Len(eng.io) = 1
    /\ eng.io[1].verb = "pair" /\ ~eng.io[1].asked
    /\ calls[Len(calls)][2] = "trust" /\ calls[Len(calls) - 1][2] = "pair"

\* the connect command printed a success text
SaysConnected(out) == Contains(out, <<"Connection", SP, "successful">>)

\* C27 (connect truth is the daemon state): the engine takes a connect call
\* as connected, and finishes in DONE, exactly when the info query that
\* follows it contains 'Connected: yes', whatever the connect command
\* printed; the connect command's text decides the authentication-failure
\* classification and nothing else: a failed attempt of the connect loop is
\* followed by the bond repair only when the text is an authentication
\* failure.
C27_ConnectTruth ==
    [][\A k \in 1..Len(HeardNow) :
         LET e == HeardNow[k]
         IN  e.verb = "connect" =>
               /\ e.asked
               /\ MadeNow[1] = Cmd("bluetoothctl", "connect", eng.mac)
               /\ MadeNow[2] = Cmd("bluetoothctl", "info", eng.mac)
               /\ TookConnected <=> Contains(_run(e.info), <<"Connected:", SP, "yes">>)
               /\ TookConnected => Len(MadeNow) = 2 /\ settings'.bt_device_mac = eng.mac
               /\ ~TookConnected => state' # DONE /\ UNCHANGED settings
               /\ pc = "connect" => eng'.auth_fail = AuthFail(_run(e.out))
               /\ pc = "connect" /\ MadeAt("pair") # {} => AuthFail(_run(e.out)) /\ ~TookConnected]_vars

\* C27's case: the connect command printed an error, the info query that
\* followed reported the connection, and the engine finished in DONE
C27_Witness ==
    /\ EngineReturned /\ state = DONE
    /\ Len(eng.io) = 1
    /\ eng.io[1].verb = "connect"
    /\ ~SaysConnected(eng.io[1].out) /\ AuthFail(eng.io[1].out)
    /\ Contains(eng.io[1].info, <<"Connected:", SP, "yes">>)
    /\ settings.bt_device_mac = eng.mac

\* the other case: the connect command printed its success text, the info
\* query reported no connection, and the engine went on to the next attempt
C27_SuccessTextNotBelieved ==
    /\ EngineCall /\ pc = "connect" /\ eng.attempt = 1
    /\ Len(eng.io) = 1
    /\ eng.io[1].verb = "connect"
    /\ SaysConnected(eng.io[1].out)
    /\ ~Contains(eng.io[1].info, <<"Connected:", SP, "yes">>)
    /\ state = CONNECT

\* ------------------------------------------------------------ step order

\* positions in the log of the engine's adapter select, of its routing-file
\* update and of the relay's commands
SelectAt == {i \in 1..Len(calls) : calls[i][1] = "bluetoothctl" /\ calls[i][2] = "select"}
RoutingAt == {i \in 1..Len(calls) : calls[i][1] = "sed"}
RelayAt == {i \in 1..Len(calls) : calls[i][1] \in {"ps", "killall", "bluealsad"}}
\* the last pair call before position t
PairBefore(t) == {p \in Idx({"pair"}) : p < t /\ \A q \in Idx({"pair"}) : q < t => q <= p}

\* C28 (engine step order): the log of an engine call starts with the adapter
\* select (present exactly when the adapter's address is known), then the
\* routing-file update (when the file exists), then the relay's commands
\* (when its binary exists), then the first info query for the device, and
\* every other command comes after that query; when the call has made a
\* connect after a pair, a trust call lies after the pair call that paired,
\* with at most that call's info query between them, and before the first
\* such connect.
C28_StepOrder ==
    EngineCall =>
        /\ Idx({"info"}) # {}
        /\ LET info0 == Min(Idx({"info"}))
           IN  /\ SelectAt = (IF adapter_mac # NoAddress THEN {1} ELSE {})
               /\ adapter_mac # NoAddress => calls[1][3] = adapter_mac
               /\ Cardinality(RoutingAt) = (IF fs.asound THEN 1 ELSE 0)
               /\ \A r \in RoutingAt : calls[r][3] = eng.mac
               /\ (RelayAt # {}) = fs.bluealsad
               /\ \A a \in SelectAt, r \in RoutingAt : a < r
               /\ \A r \in SelectAt \cup RoutingAt, b \in RelayAt : r < b
               /\ \A b \in SelectAt \cup RoutingAt \cup RelayAt : b < info0
               /\ info0 = Cardinality(SelectAt) + Cardinality(RoutingAt) + Cardinality(RelayAt) + 1
        /\ PostPairConnects # {} =>
             /\ Idx({"trust"}) # {}
             /\ LET t == Min(Idx({"trust"}))
                IN  /\ t < Min(PostPairConnects)
                    /\ PairBefore(t) # {}
                    /\ \A p \in PairBefore(t) : \A k \in (p + 1)..(t - 1) : calls[k][2] = "info" /\ k = p + 1

\* C28's case: the address is known, the routing file and the relay exist, a
\* first pair attempt failed, the second paired, and the call went on to
\* trust and connect
C28_Witness ==
    /\ EngineCall
    /\ SelectAt = {1} /\ RoutingAt = {2} /\ RelayAt # {}
    /\ Cardinality(Idx({"pair"})) >= 2
    /\ Idx({"trust"}) # {}
    /\ PostPairConnects # {}

\* ------------------------------------------------------------ termination

\* the engine is running: update() has started it and it has not returned
EngineRunning == op = "_pair_device" /\ pc # "idle"

\* C29 (engine termination and call bounds): a call of the engine makes at
\* most 4 connect calls, of which at most 1 before its first pair call and at
\* most 3 after, and at most 5 pair calls, of which at most 3 before its first
\* trust call and at most 2 after; it returns with the wizard in DONE or
\* ERROR; and, every command returning, a running engine returns.
C29_EngineTerminates ==
    /\ [](EngineCall =>
            /\ Cardinality(Idx({"connect"})) <= 4
            /\ Cardinality(Idx({"connect"}) \ PostPairConnects) <= 1
            /\ Cardinality(PostPairConnects) <= 3
            /\ Cardinality(Idx({"pair"})) <= 5
            /\ Cardinality(Idx({"pair"}) \ RePairs) <= 3
            /\ Cardinality(RePairs) <= 2
            /\ (pc = "idle" => state \in {DONE, ERROR}))
    /\ (EngineRunning ~> (EngineReturned /\ state \in {DONE, ERROR}))

\* C29's case: a call that used every attempt (the fast-path connect, three
\* fresh pair attempts, three connect attempts with two re-pairs) has returned
C29_Witness ==
    /\ EngineReturned
    /\ state \in {DONE, ERROR}
    /\ Cardinality(Idx({"connect"})) = 4
    /\ Cardinality(Idx({"pair"})) = 5

\* the user presses Back and the wizard answers with a token
BackAccepted == HostInputBluetooth /\ event' = <<BTN_B, PRESS>> /\ ret' # None
\* what a frame of the host loop and a key press change
hostvars == <<current_screen, phase, pc, calls, op, event, since_scan>>
\* the event queue is empty and no engine runs: HostUpdate can be taken
UpdateDue == phase = "input" /\ pc = "idle"
\* the wizard waits for input in a state whose Back branch returns the
\* token: BackAccepted can be taken
BackOffered == phase = "input" /\ pc = "idle" /\ current_screen = "bluetooth" /\ state \in BackStates
\* the host loop runs its frames: update() is called whenever it is due
\* (weak fairness of HostUpdate, its enabling condition written out), then
\* draw(); the engine's commands return; and a user to whom Back is offered
\* again and again presses it (strong fairness of BackAccepted, its enabling
\* condition written out)
InitLoop == InitWorld("loop")
SpecFair ==
    /\ InitLoop /\ [][Next]_vars
    /\ WF_engvars(EngineStep)
    /\ WF_hostvars(HostDraw)
    /\ ([]<>(~UpdateDue) \/ []<><<HostUpdate>>_hostvars)
    /\ (<>[](~BackOffered) \/ []<><<BackAccepted>>_hostvars)

\* the wizard is the host's current screen
WizardOpen == current_screen = "bluetooth"
\* handle_input has just returned the token of the return screen, and the
\* host has switched to that screen
TokenReturned == op = "handle_input" /\ ret # None /\ ret = return_screen /\ current_screen = return_screen

\* C30 (no dead end): with the host loop running its frames, the engine's
\* commands returning and the user pressing Back when it is offered again and
\* again, the wizard, once open, returns the token of the return screen to
\* the host; a pending pairing request leads to a returned engine with the
\* wizard in DONE or ERROR; and in SCAN, SELECT_DEVICE, DONE and ERROR a Back
\* press returns the token.
C30_NoDeadEnd ==
    /\ (WizardOpen ~> TokenReturned)
    /\ (WizardOpen /\ _pair_pending # NoRequest ~> EngineReturned /\ state \in {DONE, ERROR})
    /\ [][WizardOpen /\ state \in BackStates /\ event' = <<BTN_B, PRESS>> =>
            ret' = return_screen /\ ret' # None /\ current_screen' = return_screen]_vars

\* C30's case: the pairing failed, and Back on the error screen has brought
\* the host back to the screen the wizard was opened from
C30_Witness ==
    /\ TokenReturned
    /\ event = <<BTN_B, PRESS>>
    /\ state = ERROR
    /\ error_msg \in {MSG_PAIRING_FAILED, MSG_CONNECTION_FAILED}

\* ------------------------------------------------------------ the merge

\* the lines _poll_scan read from the k-th query of its log
LinesRead(k) == SplitOn(_run(calls[k][4]), NL)
\* a line "Device <address> <name>", its address and its name
Named(line) == StartsWith(line, <<"Device", SP>>) /\ Len(SplitWs(line, 2)) >= 3
AddressOf(line) == SplitWs(line, 2)[2]
NameOf(line) == SplitWs(line, 2)[3]
\* the name of a discovered device without a leading "LE-"
ShownName(line) == IF StartsWith(NameOf(line), <<"LE-">>) THEN Tail(NameOf(line)) ELSE NameOf(line)

\* the bonded devices that have a name, and the discovered devices that are
\* not among them and have a usable name: the lines that report them
BondedLine(line) == Named(line)
BondedAddresses == {AddressOf(LinesRead(1)[i]) : i \in {j \in 1..Len(LinesRead(1)) : BondedLine(LinesRead(1)[j])}}
DiscoveredLine(line) ==
    /\ Named(line)
    /\ AddressOf(line) \notin BondedAddresses
    /\ ShownName(line) # <<>>
    /\ \A k \in 1..Len(ShownName(line)) : ShownName(line)[k] # ":"

\* the first line of each address among the lines a test accepts, in order
Firsts(lines, Accepts(_)) ==
    LET S == {i \in 1..Len(lines) : Accepts(lines[i]) /\ \A j \in 1..(i - 1) : Accepts(lines[j]) => AddressOf(lines[j]) # AddressOf(lines[i])}
        f == CHOOSE g \in [1..Cardinality(S) -> S] : \A a, b \in 1..Cardinality(S) : a < b => g[a] < g[b]
    IN  [k \in 1..Cardinality(S) |-> lines[f[k]]]

PairedPart == LET ls == Firsts(LinesRead(1), BondedLine) IN [k \in 1..Len(ls) |-> <<AddressOf(ls[k]), NameOf(ls[k]) \o TAG_PAIRED>>]
DiscoveredPart == LET ls == Firsts(LinesRead(2), DiscoveredLine) IN [k \in 1..Len(ls) |-> <<AddressOf(ls[k]), ShownName(ls[k])>>]
SavedPart ==
    LET listed == {(PairedPart \o DiscoveredPart)[k][1] : k \in 1..Len(PairedPart \o DiscoveredPart)}
    IN  IF settings.bt_device_mac # <<>> /\ settings.bt_device_mac \notin listed
        THEN <<<<settings.bt_device_mac, settings.bt_device_name \o TAG_SAVED>>>>
        ELSE <<>>

PsAt == {k \in 1..Len(calls) : calls[k][1] = "ps" /\ calls[k][2] = "bluealsad"}
KillAt == {k \in 1..Len(calls) : calls[k] = Cmd("killall", "bluealsad", <<>>)}
LaunchAt == {k \in 1..Len(calls) : calls[k][1] = "bluealsad"}
\* what ps showed at position k: a relay on the selected controller, or a
\* relay whose command line does not name it
OnSelected(k) == \E i \in 1..(Len(calls[k][4]) - 2) : SubSeq(calls[k][4], i, i + 2) = <<"-i", SP, hci>>
OnAnother(k) == calls[k][4] # <<>> /\ ~OnSelected(k)

\* C32 (audio-relay adapter pinning): in the commands of one handler call
\* the relay is looked up at most once and launched at most once, only
\* directly after that lookup (or the kill that follows it) and only with
\* the selected controller's id; a relay running without the selected
\* controller on its command line is killed and then the new one launched;
\* with a relay running on the selected controller there is neither a kill
\* nor a launch; without the relay binary there is no lookup, kill or launch
C32_RelayPinned ==
    /\ Cardinality(PsAt) <= 1 /\ Cardinality(LaunchAt) <= 1 /\ Cardinality(KillAt) <= 1
    /\ \A k \in LaunchAt : calls[k] = Cmd("bluealsad", "-i", <<hci>>) /\ PsAt # {}
    /\ \A k \in KillAt : PsAt # {}
    /\ PsAt # {} => fs.bluealsad
    /\ \A k \in PsAt :
         IF OnSelected(k) THEN KillAt = {} /\ LaunchAt = {}
         ELSE IF OnAnother(k) THEN KillAt = {k + 1} /\ LaunchAt = {k + 2}
         ELSE KillAt = {} /\ LaunchAt = {k + 1}

\* C32's case: the engine found the relay running on hci1 with hci0
\* selected, killed it and launched one on hci0
C32_Witness ==
    /\ EngineCall
    /\ hci = "hci0"
    /\ \E k \in PsAt : calls[k][4] = PsText("hci1") /\ calls[k + 1] = Cmd("killall", "bluealsad", <<>>) /\ calls[k + 2] = Cmd("bluealsad", "-i", <<"hci0">>)

\* ------------------------------------------------------ observable states

\* the host is between two calls on the wizard it shows: the next call is
\* handle_input, update or draw
Observed == current_screen = "bluetooth" /\ pc = "idle"

C34_SelectionInRange ==
    state = SELECT_DEVICE => devices # <<>> /\ 0 <= selected /\ selected < Len(devices)

\* C34's case: in a list longer than the screen a Down press on the last
\* entry left the selection on it
C34_Witness ==
    /\ state = SELECT_DEVICE
    /\ event = <<BTN_DOWN, PRESS>>
    /\ Len(devices) = visible_count + 1
    /\ selected = Len(devices) - 1
    /\ scroll_offset = 1
    /\ calls = <<>> /\ display.rows = 1..visible_count

\* C35 as stated (selection stays visible): whenever the wizard is in
\* SELECT_DEVICE, scroll_offset <= selected < scroll_offset + visible_count
C35_SelectionVisible ==
    state = SELECT_DEVICE => scroll_offset <= selected /\ selected < scroll_offset + visible_count

\* ------------------------------------------------ connects after a removal

Max(S) == CHOOSE x \in S : \A y \in S : y <= x

\* C36 as stated (no connect on a failed re-pair): every connect the
\* engine issues after it removed the device's bond is preceded by a pair
\* call and, after it, a trust call (issued only when the pair call
\* succeeded), both later than the last removal before that connect
C36_ConnectOnlyWhenPaired ==
    EngineCall =>
        \A c \in Idx({"connect"}) :
            LET removals == {r \in Idx({"remove"}) : r < c}
            IN  removals # {} =>
                    \E p \in Idx({"pair"}), t \in Idx({"trust"}) : Max(removals) < p /\ p < t /\ t < c

\* ------------------------------------------------------- the routing file

\* the addresses this call wrote into asound.conf (the file exists exactly
\* when _update_asound runs its sed)
RoutedNow == {calls[k][3] : k \in {i \in 1..Len(calls) : calls[i][1] = "sed" /\ calls[i][2] = "asound.conf"}}

\* C37 as stated (routing file agrees with settings): when a call of
\* _pair_device has returned, in DONE or in ERROR, the address it wrote
\* into the routing file is settings.bt_device_mac
C37_RoutingAgrees ==
    EngineReturned /\ state \in {DONE, ERROR} => \A mac \in RoutedNow : mac = settings.bt_device_mac

\* ------------------------------------------------------- after an empty scan

\* the last aggregation of this discovery window found nothing: its message
\* stands until a new window is started
FoundNothing == state = SCAN /\ message = MSG_NONE_FOUND

\* C38 as stated (empty scan waits for the user): once an aggregation has
\* yielded an empty list, an update tick issues no query and leaves the
\* wizard in SCAN with that list, so SELECT_DEVICE is reached only through
\* a new discovery window
C38_EmptyScanWaits ==
    [][FoundNothing /\ ScanTick => calls' = <<>> /\ state' = SCAN /\ devices' = <<>>]_vars

\* ------------------------------------------------------ discovery processes

\* a discovery process the wizard started is inside its window: _start_scan
\* has run (it runs whenever a controller is selected) and less than the
\* scan duration has passed since
InFlight == hci # None /\ since_scan < scan_duration

\* this step is an enter() or a handle_input that ran _start_scan
StartsDiscovery ==
    /\ pc = "idle" /\ op' \in {"enter", "handle_input"}
    /\ since_scan' = 0 /\ state' = SCAN
    /\ \E k \in 1..Len(calls') : calls'[k][2] = "scan"
    /\ op' = "handle_input" => event' = <<BTN_A, PRESS>> /\ phase = "input" /\ current_screen = "bluetooth"
    /\ op' = "enter" => current_screen # "bluetooth"

\* C39 as stated (single discovery in flight): no Rescan press, Error
\* retry or re-entry starts a discovery process while an earlier one is
\* still inside its window
C39_SingleDiscovery == [][StartsDiscovery => ~InFlight]_vars

\* ------------------------------------------------------- the playback order

\* C40 as stated (playlist order invariant): after any sequence of
\* Playlist operations, loads that return False included, the playback
\* order is a permutation of the indices of the track list, the position
\* is inside the order when the list is not empty, and no call of
\* current_track() has indexed outside the track list
C40_OrderInvariant ==
    /\ Len(order) = Len(tracks)
    /\ {order[i] : i \in 1..Len(order)} = 0..(Len(tracks) - 1)
    /\ tracks # <<>> => 0 <= position /\ position < Len(order)
    /\ ~raised
    /\ ~IndexError(tracks, order, position)

====
